---- MODULE Spec2Model ----
(***************************************************************************)
(* A model of the scripts of ericpullen/variousScripts.                    *)
(*                                                                         *)
(* Strings are sequences of one-character strings, so that the regular     *)
(* expressions, strptime formats, strip/lower/split calls of the source    *)
(* act on the characters they act on in Python.  Python values that reach  *)
(* dynamically typed code are tagged records [t |-> "str", v |-> ...].     *)
(***************************************************************************)
EXTENDS Integers, Sequences, FiniteSets, TLC

VARIABLES
    today,      \* datetime.now() as read by parse_event_datetime
    src,        \* how the date string under test was written (form, month, day, year)
    tsrc,       \* how the time string under test was written (form, hour, minute)
    date_str,   \* argument date_str of parse_event_datetime
    time_str,   \* argument time_str of parse_event_datetime
    result,     \* what parse_event_datetime returned
    again,      \* what parse_event_datetime returned for str(result)
    ppc,        \* position of the parse_event_datetime scenario
    pc,         \* position of main / scrape_gofan_events
    args,       \* the parsed command line: --test given, url given
    scroll,     \* scroll steps done (the loop variable i of the scroll loop)
    page,       \* what page.content() held: the __NEXT_DATA__ script, the event cards, the event links
    events,     \* the list events of scrape_gofan_events and main
    calls,      \* the extraction strategies called so far, each with what it returned
    cal,        \* the Calendar create_ics_calendar returned
    out_file,   \* the output file: what was written to it
    log,        \* the messages printed that tell outcomes apart
    error,      \* the exception that ended the run, if any
    csrc,       \* how the event card under test was written: its elements and their texts
    card_in,    \* argument card of extract_event_from_card_structured
    card_event, \* what extract_event_from_card_structured returned
    cpc,        \* position of the extract_event_from_card_structured scenario
    PREFIX,     \* s3_storage_lens_subset: the --prefix argument
    buckets,    \* the bucket names of the account, in the order list_buckets returns them
    bucketList, \* the list bucketList of main
    put_calls,  \* the Include.Buckets list of each put_storage_lens_configuration call made
    lens_log,   \* the messages logged at level INFO or ERROR
    lpc,        \* position of main of s3_storage_lens_subset
    score_answers, \* placementscore: what get_spot_placement_scores answers to the first and to the second query
    scoreValues, \* the list scoreValues of main
    queries,    \* the InstanceTypes of each get_spot_placement_scores call made
    stdout,     \* the lines printed
    spc,        \* position of main of placementscore
    cache,      \* queryoldprices: the files of the cache directory, by name
    http_calls, \* the URLs requests.get was called with
    dl_calls,   \* the download_price_list calls made, each with its outcome
    served,     \* the answers list_price_lists gave, in order
    sent,       \* the NextToken parameter of each list_price_lists request
    available_price_lists, \* the list available_price_lists
    next_token, \* the variable next_token
    returned,   \* what list_available_price_lists returned
    npc         \* position of list_available_price_lists

pvars == <<today, src, tsrc, date_str, time_str, result, again, ppc>>

svars == <<pc, args, scroll, page, events, calls, cal, out_file, log, error>>

cvars == <<csrc, card_in, card_event, cpc>>

lvars == <<PREFIX, buckets, bucketList, put_calls, lens_log, lpc>>

qvars == <<score_answers, scoreValues, queries, stdout, spc>>

dvars == <<cache, http_calls, dl_calls>>

nvars == <<served, sent, available_price_lists, next_token, returned, npc>>

xvars == <<lvars, qvars, dvars, nvars>>

vars == <<pvars, svars, cvars, xvars>>

(***************************************************************************)
(* Characters and strings                                                  *)
(***************************************************************************)
DigitSeq == <<"0", "1", "2", "3", "4", "5", "6", "7", "8", "9">>

UpperSeq == <<"A", "B", "C", "D", "E", "F", "G", "H", "I", "J", "K", "L", "M",
              "N", "O", "P", "Q", "R", "S", "T", "U", "V", "W", "X", "Y", "Z">>

LowerSeq == <<"a", "b", "c", "d", "e", "f", "g", "h", "i", "j", "k", "l", "m",
              "n", "o", "p", "q", "r", "s", "t", "u", "v", "w", "x", "y", "z">>

Range(f) == {f[i] : i \in DOMAIN f}

\* \d, \s and \w of the re module, over the characters the model uses
DigitChars == Range(DigitSeq)
SpaceChars == {" "}
WordChars == DigitChars \cup Range(UpperSeq) \cup Range(LowerSeq) \cup {"_"}

IndexIn(seq, c) == CHOOSE i \in DOMAIN seq : seq[i] = c

DigitVal == [c \in DigitChars |-> IndexIn(DigitSeq, c) - 1]

LowerOf == [c \in Range(UpperSeq) |-> LowerSeq[IndexIn(UpperSeq, c)]]

UpperOf == [c \in Range(LowerSeq) |-> UpperSeq[IndexIn(LowerSeq, c)]]

\* str.lower() and str.upper()
lower(s) == [i \in DOMAIN s |-> IF s[i] \in DOMAIN LowerOf THEN LowerOf[s[i]] ELSE s[i]]

upper(s) == [i \in DOMAIN s |-> IF s[i] \in DOMAIN UpperOf THEN UpperOf[s[i]] ELSE s[i]]

\* the length of the longest run of characters of class cls that starts at s[p]
RECURSIVE Span(_, _, _)
Span(cls, s, p) ==
    IF p <= Len(s) /\ s[p] \in cls THEN 1 + Span(cls, s, p + 1) ELSE 0

\* str.strip()
strip(s) ==
    LET lead == Span(SpaceChars, s, 1)
        keep == {j \in 1..Len(s) : s[j] \notin SpaceChars}
        last == IF keep = {} THEN 0 ELSE CHOOSE j \in keep : \A k \in keep : k <= j
    IN  IF keep = {} THEN <<>> ELSE SubSeq(s, lead + 1, last)

\* sub in s
Contains(sub, s) ==
    \E i \in 0..(Len(s) - Len(sub)) : SubSeq(s, i + 1, i + Len(sub)) = sub

\* s.startswith(pre) at offset p
StartsAt(pre, s, p) ==
    /\ p + Len(pre) - 1 <= Len(s)
    /\ SubSeq(s, p, p + Len(pre) - 1) = pre

\* int() of a run of n digits at s[p]
RECURSIVE IntAt(_, _, _)
IntAt(s, p, n) ==
    IF n = 0 THEN 0 ELSE 10 * IntAt(s, p, n - 1) + DigitVal[s[p + n - 1]]

\* n written with w digits, zero padded
RECURSIVE Digits(_, _)
Digits(n, w) ==
    IF w = 0 THEN <<>> ELSE Append(Digits(n \div 10, w - 1), DigitSeq[(n % 10) + 1])

\* str(n) of an int n >= 0
RECURSIVE Decimal(_)
Decimal(n) ==
    IF n < 10 THEN <<DigitSeq[n + 1]>> ELSE Append(Decimal(n \div 10), DigitSeq[(n % 10) + 1])

MinOf(S) == CHOOSE x \in S : \A y \in S : x <= y

\* a local variable: v is computed once and F reads it by name
With(v, F(_)) == F(v)

(***************************************************************************)
(* Python values                                                           *)
(***************************************************************************)
PyStr(s) == [t |-> "str", v |-> s]
PyNone == [t |-> "none"]
PyInt(n) == [t |-> "int", n |-> n]

\* bool(v): the truth value the source tests with "if v" / "not v" / "a or b"
Truthy(x) ==
    CASE x.t = "none" -> FALSE
      [] x.t = "str" -> x.v # <<>>
      [] x.t = "int" -> x.n # 0
      [] x.t = "list" -> x.items # <<>>
      [] x.t = "dict" -> x.members # <<>>
      [] OTHER -> TRUE

(***************************************************************************)
(* datetime                                                                *)
(***************************************************************************)
IsLeap(y) == (y % 4 = 0 /\ y % 100 # 0) \/ y % 400 = 0

DaysInMonth(y, m) ==
    IF m = 2 THEN (IF IsLeap(y) THEN 29 ELSE 28)
    ELSE IF m \in {4, 6, 9, 11} THEN 30 ELSE 31

\* datetime(year, month, day) raises ValueError unless this holds
ValidDate(y, m, d) ==
    /\ y \in 1..9999
    /\ m \in 1..12
    /\ d \in 1..DaysInMonth(y, m)

NoDateTime == [kind |-> "none"]

Raised(e) == [kind |-> "raise", exc |-> e]

DateTime(y, m, d, hh, mm, ss, us, tz) ==
    [kind |-> "dt", year |-> y, month |-> m, day |-> d, hour |-> hh, minute |-> mm,
     second |-> ss, microsecond |-> us, tz |-> tz]

\* dt + timedelta(days=1)
PlusOneDay(dt) ==
    IF dt.day < DaysInMonth(dt.year, dt.month) THEN [dt EXCEPT !.day = dt.day + 1]
    ELSE IF dt.month < 12 THEN [dt EXCEPT !.day = 1, !.month = dt.month + 1]
    ELSE [dt EXCEPT !.day = 1, !.month = 1, !.year = dt.year + 1]

(***************************************************************************)
(* gofan_scraper.py: parse_event_datetime                                  *)
(***************************************************************************)
DEFAULT_TZ == "America/Kentucky/Louisville"

month_map ==
    <<[k |-> <<"j", "a", "n">>, v |-> 1],
      [k |-> <<"f", "e", "b">>, v |-> 2],
      [k |-> <<"m", "a", "r">>, v |-> 3],
      [k |-> <<"a", "p", "r">>, v |-> 4],
      [k |-> <<"m", "a", "y">>, v |-> 5],
      [k |-> <<"j", "u", "n">>, v |-> 6],
      [k |-> <<"j", "u", "l">>, v |-> 7],
      [k |-> <<"a", "u", "g">>, v |-> 8],
      [k |-> <<"s", "e", "p">>, v |-> 9],
      [k |-> <<"o", "c", "t">>, v |-> 10],
      [k |-> <<"n", "o", "v">>, v |-> 11],
      [k |-> <<"d", "e", "c">>, v |-> 12],
      [k |-> <<"j", "a", "n", "u", "a", "r", "y">>, v |-> 1],
      [k |-> <<"f", "e", "b", "r", "u", "a", "r", "y">>, v |-> 2],
      [k |-> <<"m", "a", "r", "c", "h">>, v |-> 3],
      [k |-> <<"a", "p", "r", "i", "l">>, v |-> 4],
      [k |-> <<"j", "u", "n", "e">>, v |-> 6],
      [k |-> <<"j", "u", "l", "y">>, v |-> 7],
      [k |-> <<"a", "u", "g", "u", "s", "t">>, v |-> 8],
      [k |-> <<"s", "e", "p", "t", "e", "m", "b", "e", "r">>, v |-> 9],
      [k |-> <<"o", "c", "t", "o", "b", "e", "r">>, v |-> 10],
      [k |-> <<"n", "o", "v", "e", "m", "b", "e", "r">>, v |-> 11],
      [k |-> <<"d", "e", "c", "e", "m", "b", "e", "r">>, v |-> 12]>>

\* month_map.get(name): 0 stands for None
month_map_get(name) ==
    LET hits == {i \in DOMAIN month_map : month_map[i].k = name}
    IN  IF hits = {} THEN 0 ELSE month_map[MinOf(hits)].v

\* the part (\w{3,9})\s+(\d{1,2})(?:\s+(\d{4}))? of pattern, matched at s[p].
\* Each quantifier is greedy and what follows it cannot start with a character
\* of its class, so the runs are whole runs; a day keeps two digits of a longer
\* run, and the year group is skipped when it does not match.
pattern_tail(s, p) ==
    With(Span(WordChars, s, p), LAMBDA w :
    With(Span(SpaceChars, s, p + w), LAMBDA sp :
    With(Span(DigitChars, s, p + w + sp), LAMBDA dl :
    With(p + w + sp + (IF dl >= 2 THEN 2 ELSE dl), LAMBDA q :
    With(q + Span(SpaceChars, s, q), LAMBDA y0 :
        IF w \in 3..9 /\ sp >= 1 /\ dl >= 1
        THEN [ok |-> TRUE,
              month_str |-> SubSeq(s, p, p + w - 1),
              day_str |-> SubSeq(s, p + w + sp, q - 1),
              year_str |-> IF y0 > q /\ Span(DigitChars, s, y0) >= 4
                           THEN SubSeq(s, y0, y0 + 3) ELSE <<>>]
        ELSE [ok |-> FALSE])))))

\* pattern matched at s[p]: the optional (?:\w{3}\s+)? is tried first
pattern_match(s, p) ==
    With(IF p + 2 <= Len(s) /\ (\A k \in 0..2 : s[p + k] \in WordChars)
            /\ Span(SpaceChars, s, p + 3) >= 1
         THEN pattern_tail(s, p + 3 + Span(SpaceChars, s, p + 3))
         ELSE [ok |-> FALSE],
         LAMBDA withPre : IF withPre.ok THEN withPre ELSE pattern_tail(s, p))

\* re.search(pattern, date_str): the leftmost match
pattern_search(s) ==
    With([p \in 1..Len(s) |-> pattern_match(s, p)], LAMBDA at :
    With({p \in 1..Len(s) : at[p].ok}, LAMBDA starts :
        IF starts = {} THEN [ok |-> FALSE] ELSE at[MinOf(starts)]))

\* explicit_year as it would be if every year ahead of the current one were
\* replaced, next year included
explicit_year_strict(year, month, now) ==
    IF year > now.year
    THEN (IF month < 7 THEN now.year + 1 ELSE now.year)
    ELSE year

\* the year of a date string that carries a four-digit year
explicit_year(year, month, now) ==
    IF year > now.year + 1
    THEN (IF month < 7 THEN now.year + 1 ELSE now.year)
    ELSE year

\* school_year as it would be if the months from August on were not told
\* apart from the others
school_year_no_fall(month, now) ==
    IF now.month <= 7 THEN now.year ELSE now.year + 1

\* school_year as it would be if the school year ended with June
school_year_early(month, now) ==
    IF month >= 8 THEN now.year
    ELSE IF now.month < 7 THEN now.year ELSE now.year + 1

\* the year of a date string that carries none: the school year runs Aug-Jul
school_year(month, now) ==
    IF month >= 8 THEN now.year
    ELSE IF now.month <= 7 THEN now.year ELSE now.year + 1

\* the regex path: a naive datetime at midnight, or no date
regex_date(s, now) ==
    With(pattern_search(s), LAMBDA match :
        IF ~match.ok THEN NoDateTime
        ELSE With(month_map_get(lower(match.month_str)), LAMBDA month :
             With(IntAt(match.day_str, 1, Len(match.day_str)), LAMBDA day :
             With(IF match.year_str # <<>>
                  THEN explicit_year(IntAt(match.year_str, 1, 4), month, now)
                  ELSE school_year(month, now), LAMBDA year :
                 IF month = 0 THEN NoDateTime
                 ELSE IF ValidDate(year, month, day)
                      THEN DateTime(year, month, day, 0, 0, 0, 0, "naive")
                      ELSE NoDateTime))))

(***************************************************************************)
(* datetime.strptime for the directives the formats of the source use.     *)
(* A format is the sequence of its directives and literal characters.      *)
(***************************************************************************)
date_formats ==
    << <<"%B", " ", "%d", ",", " ", "%Y">>,
       <<"%b", " ", "%d", ",", " ", "%Y">>,
       <<"%m", "/", "%d", "/", "%Y">>,
       <<"%m", "/", "%d", "/", "%y">>,
       <<"%Y", "-", "%m", "-", "%d">> >>

time_formats ==
    << <<"%I", ":", "%M", " ", "%p">>,
       <<"%I", ":", "%M", "%p">>,
       <<"%I", " ", "%p">>,
       <<"%H", ":", "%M">> >>

\* the full (%B) and abbreviated (%b) names of the months, lower case
MonthNames ==
    [full \in BOOLEAN |-> [m \in 1..12 |->
        LET ks == {i \in DOMAIN month_map : month_map[i].v = m}
            i == CHOOSE i \in ks :
                     \A j \in ks : IF full THEN Len(month_map[j].k) <= Len(month_map[i].k)
                                           ELSE Len(month_map[i].k) <= Len(month_map[j].k)
        IN  month_map[i].k]]

MonthName(m, full) == MonthNames[full][m]

NoMatch == [ok |-> FALSE, n |-> 0, val |-> 0]

\* a numeric directive: its two-digit alternatives first, then its one-digit one
NumDirective(s, p, lo2, hi2, lo1, hi1) ==
    LET dl == Span(DigitChars, s, p)
    IN  IF dl >= 2 /\ IntAt(s, p, 2) \in lo2..hi2
        THEN [ok |-> TRUE, n |-> 2, val |-> IntAt(s, p, 2)]
        ELSE IF dl >= 1 /\ IntAt(s, p, 1) \in lo1..hi1
        THEN [ok |-> TRUE, n |-> 1, val |-> IntAt(s, p, 1)]
        ELSE NoMatch

NameDirective(s, p, full) ==
    LET ls == lower(s)
        hits == {m \in 1..12 : StartsAt(MonthName(m, full), ls, p)}
    IN  IF hits = {} THEN NoMatch
        ELSE LET m == CHOOSE m \in hits : TRUE
             IN  [ok |-> TRUE, n |-> Len(MonthName(m, full)), val |-> m]

\* one directive or literal of a format, matched at s[p]
Directive(tok, s, p) ==
    CASE tok = "%Y" -> IF Span(DigitChars, s, p) >= 4
                       THEN [ok |-> TRUE, n |-> 4, val |-> IntAt(s, p, 4)] ELSE NoMatch
      [] tok = "%y" -> NumDirective(s, p, 0, 99, 1, 0)
      [] tok = "%m" -> NumDirective(s, p, 1, 12, 1, 9)
      [] tok = "%d" -> IF p < Len(s) /\ s[p] = " " /\ s[p + 1] \in DigitChars
                          /\ IntAt(s, p + 1, 1) \in 1..9
                       THEN [ok |-> TRUE, n |-> 2, val |-> IntAt(s, p + 1, 1)]
                       ELSE NumDirective(s, p, 1, 31, 1, 9)
      [] tok = "%H" -> NumDirective(s, p, 0, 23, 0, 9)
      [] tok = "%I" -> NumDirective(s, p, 1, 12, 1, 9)
      [] tok = "%M" -> NumDirective(s, p, 0, 59, 0, 9)
      [] tok = "%p" -> IF StartsAt(<<"a", "m">>, lower(s), p) THEN [ok |-> TRUE, n |-> 2, val |-> 0]
                       ELSE IF StartsAt(<<"p", "m">>, lower(s), p) THEN [ok |-> TRUE, n |-> 2, val |-> 1]
                       ELSE NoMatch
      [] tok = "%B" -> NameDirective(s, p, TRUE)
      [] tok = "%b" -> NameDirective(s, p, FALSE)
      [] tok = " " -> IF Span(SpaceChars, s, p) >= 1
                      THEN [ok |-> TRUE, n |-> Span(SpaceChars, s, p), val |-> 0] ELSE NoMatch
      [] OTHER -> IF p <= Len(s) /\ s[p] = tok THEN [ok |-> TRUE, n |-> 1, val |-> 0] ELSE NoMatch

NoFields == [t \in {"%Y", "%y", "%m", "%B", "%b", "%d", "%H", "%I", "%M", "%p"} |-> -1]

\* the fields of s under format fmt from directive i on, s read from s[p];
\* the whole of s must be consumed ("unconverted data remains" otherwise)
RECURSIVE strptime_fields(_, _, _, _, _)
strptime_fields(s, fmt, i, p, got) ==
    IF i > Len(fmt) THEN [ok |-> p = Len(s) + 1, f |-> got]
    ELSE With(Directive(fmt[i], s, p), LAMBDA r :
             IF ~r.ok THEN [ok |-> FALSE, f |-> got]
             ELSE strptime_fields(s, fmt, i + 1, p + r.n,
                                  IF fmt[i] \in DOMAIN got THEN [got EXCEPT ![fmt[i]] = r.val]
                                  ELSE got))

\* the datetime strptime builds from the fields f it found: 1900-01-01 00:00
\* where a field is missing, %y below 69 in this century, %I with %p
strptime_datetime(f) ==
    LET year == IF f["%Y"] >= 0 THEN f["%Y"]
                ELSE IF f["%y"] >= 0 THEN (IF f["%y"] <= 68 THEN 2000 + f["%y"] ELSE 1900 + f["%y"])
                ELSE 1900
        month == IF f["%m"] >= 0 THEN f["%m"]
                 ELSE IF f["%B"] >= 0 THEN f["%B"]
                 ELSE IF f["%b"] >= 0 THEN f["%b"] ELSE 1
        day == IF f["%d"] >= 0 THEN f["%d"] ELSE 1
        hour == IF f["%H"] >= 0 THEN f["%H"]
                ELSE IF f["%I"] >= 0
                     THEN (IF f["%p"] = 1 THEN (IF f["%I"] = 12 THEN 12 ELSE f["%I"] + 12)
                           ELSE (IF f["%I"] = 12 THEN 0 ELSE f["%I"]))
                ELSE 0
        minute == IF f["%M"] >= 0 THEN f["%M"] ELSE 0
    IN  IF ValidDate(year, month, day)
        THEN [ok |-> TRUE, dt |-> DateTime(year, month, day, hour, minute, 0, 0, "naive")]
        ELSE [ok |-> FALSE]

\* datetime.strptime(s, fmt): [ok |-> FALSE] stands for ValueError
strptime(s, fmt) ==
    With(strptime_fields(s, fmt, 1, 1, NoFields), LAMBDA r :
        IF r.ok THEN strptime_datetime(r.f) ELSE [ok |-> FALSE])

\* for fmt in formats: try strptime, break at the first that parses
first_format(s, formats) ==
    With([i \in DOMAIN formats |-> strptime(s, formats[i])], LAMBDA tries :
    With({i \in DOMAIN formats : tries[i].ok}, LAMBDA oks :
        IF oks = {} THEN [ok |-> FALSE] ELSE tries[MinOf(oks)]))

\* the fallback loop: the first of date_formats that parses
fallback_date(s) ==
    With(first_format(s, date_formats), LAMBDA parsed :
        IF parsed.ok THEN parsed.dt ELSE NoDateTime)

\* parse_date as it would be without the fallback loop
parse_date_regex_only(s, now) ==
    IF Contains(<<"t", "o", "d", "a", "y">>, lower(s)) THEN now
    ELSE IF Contains(<<"t", "o", "m", "o", "r", "r", "o", "w">>, lower(s)) THEN PlusOneDay(now)
    ELSE regex_date(s, now)

\* parsed_date before the time is applied
parse_date(s, now) ==
    IF Contains(<<"t", "o", "d", "a", "y">>, lower(s)) THEN now
    ELSE IF Contains(<<"t", "o", "m", "o", "r", "r", "o", "w">>, lower(s)) THEN PlusOneDay(now)
    ELSE With(regex_date(s, now), LAMBDA byRegex :
             IF byRegex.kind = "dt" THEN byRegex ELSE fallback_date(s))

\* the time loop: the first of time_formats that parses sets hour and minute
parse_time(parsed_date, ts) ==
    With(first_format(upper(strip(ts)), time_formats), LAMBDA parsed :
        IF parsed.ok
        THEN [parsed_date EXCEPT !.hour = parsed.dt.hour, !.minute = parsed.dt.minute]
        ELSE parsed_date)

\* localize as it would be if the datetime were returned naive
localize_naive(parsed_date) == parsed_date

\* parsed_date.replace(tzinfo=DEFAULT_TZ)
localize(parsed_date) == [parsed_date EXCEPT !.tz = DEFAULT_TZ]

\* parse_event_datetime(date_str, time_str) called when datetime.now() is now;
\* the arguments are Python values
parse_event_datetime(date_v, time_v, now) ==
    IF ~Truthy(date_v) THEN NoDateTime
    ELSE IF date_v.t # "str" THEN Raised("AttributeError")
    ELSE With(parse_date(strip(date_v.v), now), LAMBDA parsed_date :
             IF parsed_date.kind = "none" THEN NoDateTime
             ELSE IF ~Truthy(time_v) THEN localize(parsed_date)
             ELSE IF time_v.t # "str" THEN Raised("AttributeError")
             ELSE localize(parse_time(parsed_date, time_v.v)))

\* str(dt) of an aware datetime whose UTC offset prints as offset
datetime_str(dt, offset) ==
    Digits(dt.year, 4) \o <<"-">> \o Digits(dt.month, 2) \o <<"-">> \o Digits(dt.day, 2)
    \o <<" ">> \o Digits(dt.hour, 2) \o <<":">> \o Digits(dt.minute, 2)
    \o <<":">> \o Digits(dt.second, 2)
    \o (IF dt.microsecond # 0 THEN <<".">> \o Digits(dt.microsecond, 6) ELSE <<>>)
    \o offset

(***************************************************************************)
(* The date and time strings parse_event_datetime is applied to.  Each is  *)
(* written out from the date or time it is meant to say, so that what the  *)
(* function returns can be compared with what was written.                 *)
(***************************************************************************)
Capital(w) == <<upper(w)[1]>> \o Tail(w)

DateText(i) ==
    LET name == Capital(MonthName(i.month, i.full))
        head == (IF i.dow THEN <<"M", "o", "n", " ">> ELSE <<>>) \o name \o <<" ">> \o Decimal(i.day)
    IN  CASE i.form = "md" -> head
          [] i.form = "mdy" -> head \o <<" ">> \o Digits(i.year, 4)
          [] i.form = "mdcy" -> head \o <<",", " ">> \o Digits(i.year, 4)
          [] i.form = "slash" -> Digits(i.month, 2) \o <<"/">> \o Digits(i.day, 2)
                                 \o <<"/">> \o Digits(i.year, 4)
          [] i.form = "slash2" -> Digits(i.month, 2) \o <<"/">> \o Digits(i.day, 2)
                                  \o <<"/">> \o Digits(i.year % 100, 2)
          [] i.form = "iso" -> Digits(i.year, 4) \o <<"-">> \o Digits(i.month, 2)
                               \o <<"-">> \o Digits(i.day, 2)
          [] OTHER -> i.text

DateInput(form, dow, full, month, day, year) ==
    [form |-> form, dow |-> dow, full |-> full, month |-> month, day |-> day,
     year |-> year, text |-> <<>>]

DateLiteral(form, text) ==
    [form |-> form, dow |-> FALSE, full |-> FALSE, month |-> 0, day |-> 0, year |-> 0,
     text |-> text]

\* "Dec 8", "Mon Dec 8", "December 8": every month, days that not every month has
NoYearInputs ==
    {DateInput("md", h[1], h[2], m, d, 0) :
        h \in {<<FALSE, FALSE>>, <<TRUE, FALSE>>, <<FALSE, TRUE>>}, m \in 1..12, d \in {8, 29, 31}}

\* "Jan 5 2026", "Mon Jan 5 2027": years behind, at and ahead of the current year
YearInputs ==
    {DateInput("mdy", dow, FALSE, m, d, y) :
        dow \in BOOLEAN, m \in {1, 2, 6, 7, 12}, d \in {5, 29},
        y \in {0, 1999, 2024, 2025, 2026, 2027, 2028}}

\* "December 8, 2024", "Jan 15, 2025", "01/15/2025", "01/15/25", "2025-01-15"
AbsoluteInputs ==
    {DateInput("mdcy", FALSE, full, m, d, y) :
        full \in BOOLEAN, m \in {1, 2, 12}, d \in {8, 15, 29, 30}, y \in {2024, 2025}}
    \cup {DateInput(f, FALSE, FALSE, m, d, y) :
        f \in {"slash", "slash2", "iso"}, m \in {1, 2, 12, 13}, d \in {15, 29, 30},
        y \in {2024, 2025}}

RelativeInputs ==
    {DateLiteral("today", <<"t", "o", "d", "a", "y">>),
     DateLiteral("today", <<"T", "o", "d", "a", "y">>),
     DateLiteral("today", <<"G", "a", "m", "e", " ", "t", "o", "d", "a", "y">>),
     DateLiteral("tomorrow", <<"t", "o", "m", "o", "r", "r", "o", "w">>),
     DateLiteral("tomorrow", <<"T", "o", "m", "o", "r", "r", "o", "w">>)}

OtherInputs ==
    {DateLiteral("empty", <<>>),
     DateLiteral("other", <<" ", " ", " ">>),
     DateLiteral("other", <<"S", "e", "p", "t", " ", "8">>),
     DateLiteral("other", <<"T", "B", "D">>),
     DateLiteral("other", <<"M", "o", "n", " ", "1", "2", "3", " ", "4">>),
     DateLiteral("other", <<"D", "e", "c", " ", "2", "0", "2", "4">>),
     DateLiteral("other", <<"T", "h", "u", "r", "s", "d", "a", "y", " ", "D", "e", "c", " ", "8">>),
     DateLiteral("other", <<"0", "1", "/", " ", "5", "/", "2", "0", "2", "5">>),
     DateLiteral("other", <<"1", "/", "5", "/", "2", "0", "2", "5">>)}

TimeText(i) ==
    LET ap == IF i.pm THEN <<"P", "M">> ELSE <<"A", "M">>
        apm == IF i.low THEN lower(ap) ELSE ap
    IN  CASE i.form = "h:mm AM" -> Decimal(i.hour) \o <<":">> \o Digits(i.minute, 2) \o <<" ">> \o apm
          [] i.form = "h:mmAM" -> Decimal(i.hour) \o <<":">> \o Digits(i.minute, 2) \o apm
          [] i.form = "h AM" -> Decimal(i.hour) \o <<" ">> \o apm
          [] i.form = "HH:MM" -> Decimal(i.hour) \o <<":">> \o Digits(i.minute, 2)
          [] OTHER -> i.text

TimeInput(form, hour, minute, pm, low) ==
    [form |-> form, hour |-> hour, minute |-> minute, pm |-> pm, low |-> low, text |-> <<>>]

TimeLiteral(form, text) ==
    [form |-> form, hour |-> 0, minute |-> 0, pm |-> FALSE, low |-> FALSE, text |-> text]

NoTime == TimeLiteral("empty", <<>>)

TimeInputs ==
    {TimeInput(f, h, m, pm, low) :
        f \in {"h:mm AM", "h:mmAM"}, h \in {1, 7, 12}, m \in {0, 30}, pm \in BOOLEAN,
        low \in BOOLEAN}
    \cup {TimeInput("h AM", h, 0, pm, FALSE) : h \in {1, 7, 12}, pm \in BOOLEAN}
    \cup {TimeInput("HH:MM", h, m, FALSE, FALSE) : h \in {0, 7, 19, 23}, m \in {0, 5}}
    \cup {NoTime,
          TimeLiteral("other", <<" ", " ">>),
          TimeLiteral("other", <<"7", "P", "M">>),
          TimeLiteral("other", <<"1", "3", ":", "0", "0", " ", "P", "M">>),
          TimeLiteral("other", <<"2", "4", ":", "0", "0">>),
          TimeLiteral("other", <<"0", ":", "3", "0", " ", "A", "M">>),
          TimeLiteral("other", <<"T", "B", "D">>)}

\* datetime.now(): a naive local time, mid-month in every month of two years and
\* on the days before a month, a leap day and a year turn
Now(y, m, d) == DateTime(y, m, d, 14, 30, 42, 123, "naive")

Todays ==
    {Now(y, m, 15) : y \in {2024, 2025}, m \in 1..12}
    \cup {Now(2024, 2, 28), Now(2024, 2, 29), Now(2025, 2, 28), Now(2024, 12, 31)}

\* the UTC offsets America/Kentucky/Louisville prints: standard and daylight time
UtcOffsets == {<<"-", "0", "5", ":", "0", "0">>, <<"-", "0", "4", ":", "0", "0">>}

(***************************************************************************)
(* gofan_scraper.py: the three extraction strategies                       *)
(***************************************************************************)
\* a Python dict with string keys as a function on the keys it holds
EmptyDict == [k \in {} |-> PyNone]

\* d[k] = v
Put(d, k, v) == (k :> v) @@ d

\* d.get(k, default)
Get(d, k, default) == IF k \in DOMAIN d THEN d[k] ELSE default

\* a or b
Or(a, b) == IF Truthy(a) THEN a ELSE b

\* a JSON object keeps the order of its members: a sequence of [k, v]
JsonDict(members) == [t |-> "dict", members |-> members]
JsonList(items) == [t |-> "list", items |-> items]

\* k in obj, obj.get(k) and obj.get(k, '') of a JSON object
JsonHas(obj, k) == \E i \in DOMAIN obj.members : obj.members[i].k = k

JsonGet(obj, k, default) ==
    IF JsonHas(obj, k)
    THEN obj.members[CHOOSE i \in DOMAIN obj.members :
                         /\ obj.members[i].k = k
                         /\ \A j \in DOMAIN obj.members : obj.members[j].k = k => j <= i].v
    ELSE default

\* the record find_events appends for an event-like object
nextdata_event(obj) ==
    [title |-> Or(Or(JsonGet(obj, "eventName", PyNone), JsonGet(obj, "name", PyNone)),
                  JsonGet(obj, "title", PyStr(<<>>))),
     date |-> Or(Or(JsonGet(obj, "eventDate", PyNone), JsonGet(obj, "date", PyNone)),
                 JsonGet(obj, "startDate", PyStr(<<>>))),
     time |-> Or(JsonGet(obj, "startTime", PyNone), JsonGet(obj, "time", PyStr(<<>>))),
     venue |-> Or(JsonGet(obj, "venueName", PyNone), JsonGet(obj, "venue", PyStr(<<>>))),
     address |-> Or(JsonGet(obj, "venueAddress", PyNone), JsonGet(obj, "address", PyStr(<<>>))),
     ticket_url |-> Or(JsonGet(obj, "ticketUrl", PyNone), JsonGet(obj, "url", PyStr(<<>>))),
     opponent |-> Or(JsonGet(obj, "opponent", PyNone), JsonGet(obj, "awayTeam", PyStr(<<>>)))]

RECURSIVE find_events(_), find_events_each(_, _)

\* find_events as it would be if the walk stopped at an event-like object
\* instead of going on into its values
find_events_shallow(obj) ==
    IF obj.t = "dict"
    THEN IF \E k \in {"eventName", "eventDate", "startTime", "venueName"} : JsonHas(obj, k)
         THEN <<nextdata_event(obj)>>
         ELSE find_events_each([i \in DOMAIN obj.members |-> obj.members[i].v], 1)
    ELSE IF obj.t = "list" THEN find_events_each(obj.items, 1)
    ELSE <<>>

\* find_events(obj): the records appended for obj and everything under it, in
\* the order of the depth-first walk
find_events(obj) ==
    IF obj.t = "dict"
    THEN (IF \E k \in {"eventName", "eventDate", "startTime", "venueName"} : JsonHas(obj, k)
          THEN <<nextdata_event(obj)>> ELSE <<>>)
         \o find_events_each([i \in DOMAIN obj.members |-> obj.members[i].v], 1)
    ELSE IF obj.t = "list" THEN find_events_each(obj.items, 1)
    ELSE <<>>

find_events_each(items, i) ==
    IF i > Len(items) THEN <<>>
    ELSE find_events(items[i]) \o find_events_each(items, i + 1)

extract_events_from_nextdata(data) == find_events(data)

\* the index of the first occurrence of sub in s at or after p, 0 if none
FindFrom(sub, s, p) ==
    LET at == {i \in p..(Len(s) - Len(sub) + 1) : StartsAt(sub, s, i)}
    IN  IF at = {} THEN 0 ELSE MinOf(at)

\* s.split(sep)[0] and s.split(sep)[1], for s that contains sep
SplitFirst(s, sep) == SubSeq(s, 1, FindFrom(sep, s, 1) - 1)

SplitSecond(s, sep) ==
    LET from == FindFrom(sep, s, 1) + Len(sep)
        next == FindFrom(sep, s, from)
    IN  SubSeq(s, from, IF next = 0 THEN Len(s) ELSE next - 1)

VS == <<" ", "v", "s", " ">>

\* title and opponent from the matchup text (event-name element)
card_matchup(event, full_name) ==
    IF Contains(VS, full_name)
    THEN With(IF Get(event, "home_away", PyNone) = PyStr(<<"H", "o", "m", "e">>)
              THEN [mark |-> <<"v", "s", " ">>, opponent |-> strip(SplitSecond(full_name, VS))]
              ELSE [mark |-> <<"@", " ">>, opponent |-> strip(SplitFirst(full_name, VS))],
              LAMBDA m : Put(Put(event, "title", PyStr(m.mark \o m.opponent)),
                             "opponent", PyStr(m.opponent)))
    ELSE Put(event, "title", PyStr(full_name))

\* card_levels as it would be if "Boys" were looked for first
card_levels_boys_first(event, levels) ==
    LET old == Get(event, "title", PyStr(<<>>)).v
    IN  IF Contains(<<"B", "o", "y", "s">>, levels) THEN Put(event, "title", PyStr(<<"B", "B", "B", ":", " ">> \o old))
        ELSE IF Contains(<<"G", "i", "r", "l", "s">>, levels) THEN Put(event, "title", PyStr(<<"G", "B", "B", ":", " ">> \o old))
        ELSE event

\* the title prefix from the activity-levels text
card_levels(event, levels) ==
    LET old == Get(event, "title", PyStr(<<>>)).v
    IN  IF Contains(<<"G", "i", "r", "l", "s">>, levels) THEN Put(event, "title", PyStr(<<"G", "B", "B", ":", " ">> \o old))
        ELSE IF Contains(<<"B", "o", "y", "s">>, levels) THEN Put(event, "title", PyStr(<<"B", "B", "B", ":", " ">> \o old))
        ELSE event

\* extract_event_from_card_structured(card, base_url).  A card is a function
\* from the data-testid values it has an element for to that element's
\* get_text(strip=True), and from "href" to the href of its a[href*="/event/"].
extract_event_from_card_structured(card) ==
    With(IF "event-tag" \in DOMAIN card
         THEN Put(EmptyDict, "home_away", PyStr(card["event-tag"])) ELSE EmptyDict, LAMBDA e1 :
    With(IF "month-day-of-year" \in DOMAIN card
         THEN Put(e1, "date",
                  PyStr(IF "year" \in DOMAIN card
                        THEN card["month-day-of-year"] \o <<" ">> \o card["year"]
                        ELSE card["month-day-of-year"]))
         ELSE e1, LAMBDA e2 :
    With(IF "time" \in DOMAIN card THEN Put(e2, "time", PyStr(card["time"])) ELSE e2, LAMBDA e3 :
    With(IF "event-name" \in DOMAIN card
         THEN card_matchup(Put(e3, "full_name", PyStr(card["event-name"])), card["event-name"])
         ELSE e3, LAMBDA e4 :
    With(IF "sport" \in DOMAIN card THEN Put(e4, "sport", PyStr(card["sport"])) ELSE e4, LAMBDA e5 :
    With(IF "activity-levels" \in DOMAIN card
         THEN card_levels(Put(e5, "levels", PyStr(card["activity-levels"])),
                          card["activity-levels"])
         ELSE e5, LAMBDA e6 :
    With(IF "more-info" \in DOMAIN card THEN Put(e6, "venue", PyStr(card["more-info"])) ELSE e6, LAMBDA e7 :
    With(IF "href" \in DOMAIN card
         THEN Put(e7, "ticket_url",
                  PyStr(IF StartsAt(<<"/">>, card["href"], 1)
                        THEN <<"h", "t", "t", "p", "s", ":", "/", "/", "g", "o", "f", "a", "n", ".", "c", "o">> \o card["href"] ELSE card["href"]))
         ELSE e7, LAMBDA e8 :
        IF ~Truthy(Get(e8, "date", PyNone)) \/ ~Truthy(Get(e8, "title", PyNone))
        THEN PyNone ELSE e8))))))))

\* the loop over the event cards: the records of the cards that gave one
RECURSIVE extract_events_from_cards(_)
extract_events_from_cards(cards) ==
    IF cards = <<>> THEN <<>>
    ELSE With(extract_event_from_card_structured(Head(cards)), LAMBDA event_data :
             IF event_data = PyNone THEN <<>> ELSE <<event_data>>)
         \o extract_events_from_cards(Tail(cards))

\* re.search(r'\d{1,2}/\d{1,2}|\w+\s+\d{1,2}', line)
line_has_date(line) ==
    \/ \E p \in 1..(Len(line) - 2) :
           line[p] \in DigitChars /\ line[p + 1] = "/" /\ line[p + 2] \in DigitChars
    \/ \E p \in 1..Len(line) :
           /\ line[p] \in WordChars
           /\ Span(SpaceChars, line, p + 1) >= 1
           /\ Span(DigitChars, line, p + 1 + Span(SpaceChars, line, p + 1)) >= 1

\* \d{1,2}:\d{2} matched at line[p]: the number of characters matched, 0 if none
time_at(line, p) ==
    IF Span(DigitChars, line, p) >= 2 /\ StartsAt(<<":">>, line, p + 2)
       /\ Span(DigitChars, line, p + 3) >= 2 THEN 5
    ELSE IF Span(DigitChars, line, p) >= 1 /\ StartsAt(<<":">>, line, p + 1)
            /\ Span(DigitChars, line, p + 2) >= 2 THEN 4
    ELSE 0

\* re.search(r'\d{1,2}:\d{2}', line)
line_has_time(line) == \E p \in 1..Len(line) : time_at(line, p) > 0

\* re.search(r'\d{1,2}:\d{2}\s*(?:AM|PM)?', line, re.I).group()
line_time(line) ==
    With(MinOf({q \in 1..Len(line) : time_at(line, q) > 0}), LAMBDA p :
    With(p + time_at(line, p), LAMBDA e :
    With(e + Span(SpaceChars, line, e), LAMBDA f :
        SubSeq(line, p,
               IF StartsAt(<<"a", "m">>, lower(line), f) \/ StartsAt(<<"p", "m">>, lower(line), f)
               THEN f + 1 ELSE f - 1))))

\* the loop over the lines of the parent's text
RECURSIVE text_lines(_, _)
text_lines(event, lines) ==
    IF lines = <<>> THEN event
    ELSE With(IF line_has_date(Head(lines))
              THEN Put(event, "date", PyStr(strip(Head(lines)))) ELSE event, LAMBDA e1 :
             text_lines(IF line_has_time(Head(lines))
                        THEN Put(e1, "time", PyStr(line_time(Head(lines)))) ELSE e1,
                        Tail(lines)))

\* extract_events_from_text(soup, base_url).  A link is an a element whose href
\* matches /event/: its href, its text, whether it has a div, li or article
\* ancestor, and the lines of that ancestor's text.
RECURSIVE extract_events_from_text(_)
extract_events_from_text(links) ==
    IF links = <<>> THEN <<>>
    ELSE (IF Head(links).parent
          THEN <<text_lines(
                   [ticket_url |-> PyStr(IF StartsAt(<<"h", "t", "t", "p">>, Head(links).href, 1)
                                         THEN Head(links).href
                                         ELSE <<"h", "t", "t", "p", "s", ":", "/", "/", "g", "o", "f", "a", "n", ".", "c", "o">> \o Head(links).href),
                    title |-> Or(PyStr(Head(links).text), PyStr(<<"G", "a", "m", "e">>))],
                   Head(links).lines)>>
          ELSE <<>>)
         \o extract_events_from_text(Tail(links))

(***************************************************************************)
(* gofan_scraper.py: create_ics_calendar, get_sample_events                *)
(***************************************************************************)
\* str(v) as an f-string formats v
Str(x) ==
    CASE x.t = "str" -> x.v
      [] x.t = "none" -> <<"N", "o", "n", "e">>
      [] x.t = "int" -> Decimal(x.n)
      [] OTHER -> <<"?">>

\* PlusTwoHours as it would be if the day were not carried past midnight
PlusTwoHoursSameDay(dt) == [dt EXCEPT !.hour = (dt.hour + 2) % 24]

\* dt + timedelta(hours=2)
PlusTwoHours(dt) ==
    IF dt.hour + 2 < 24 THEN [dt EXCEPT !.hour = dt.hour + 2]
    ELSE [PlusOneDay(dt) EXCEPT !.hour = dt.hour + 2 - 24]

\* re.sub with the pattern [^a-zA-Z0-9]: only letters and digits are kept
uid_sub_alnum(uid) ==
    SelectSeq(uid, LAMBDA c : c \in WordChars \ {"_"})

\* re.sub(r'[^a-zA-Z0-9@.-]', '', uid)
uid_sub(uid) ==
    SelectSeq(uid, LAMBDA c : c \in (WordChars \ {"_"}) \cup {"@", ".", "-"})

\* the properties every calendar gets
calendar_properties(calendar_name) ==
    [prodid |-> "-//GoFan Scraper//gofan-to-ics//EN", version |-> "2.0",
     calscale |-> "GREGORIAN", x_wr_calname |-> calendar_name,
     x_wr_timezone |-> "America/Kentucky/Louisville"]

\* calendar_event as it would be without event.add('uid', uid): summary and,
\* when the date resolved, start and end only
calendar_event_no_uid(evt_data, dt_start) ==
    With(Put(EmptyDict, "summary", Get(evt_data, "title", PyStr(<<"G", "a", "m", "e">>))), LAMBDA c1 :
        IF dt_start.kind = "dt"
        THEN Put(Put(c1, "dtstart", dt_start), "dtend", PlusTwoHours(dt_start))
        ELSE c1)

\* the body of the loop of create_ics_calendar: the Event added for evt_data,
\* dt_start being what parse_event_datetime returned for it
calendar_event(evt_data, dt_start) ==
    With(Put(EmptyDict, "summary", Get(evt_data, "title", PyStr(<<"G", "a", "m", "e">>))), LAMBDA c1 :
    With(IF dt_start.kind = "dt"
         THEN Put(Put(c1, "dtstart", dt_start), "dtend", PlusTwoHours(dt_start))
         ELSE c1, LAMBDA c2 :
    With(IF Truthy(Get(evt_data, "venue", PyNone))
         THEN Put(c2, "location", evt_data["venue"]) ELSE c2, LAMBDA c3 :
    With(IF Truthy(Get(evt_data, "ticket_url", PyNone))
         THEN Put(c3, "url", evt_data["ticket_url"]) ELSE c3, LAMBDA c4 :
    With((IF Truthy(Get(evt_data, "opponent", PyNone))
          THEN <<<<"v", "s", " ">> \o Str(evt_data["opponent"])>> ELSE <<>>)
         \o (IF Truthy(Get(evt_data, "ticket_url", PyNone))
             THEN <<<<"T", "i", "c", "k", "e", "t", "s", ":", " ">> \o Str(evt_data["ticket_url"])>> ELSE <<>>),
         LAMBDA desc_parts :
    With(IF desc_parts = <<>> THEN c4
         ELSE Put(c4, "description",
                  PyStr(IF Len(desc_parts) = 1 THEN desc_parts[1]
                        ELSE desc_parts[1] \o <<"\n">> \o desc_parts[2])), LAMBDA c5 :
        Put(c5, "uid",
            PyStr(uid_sub(Str(Get(evt_data, "date", PyStr(<<"u", "n", "k", "n", "o", "w", "n">>))) \o <<"-">>
                          \o Str(Get(evt_data, "title", PyStr(<<"e", "v", "e", "n", "t">>)))
                          \o <<"@", "g", "o", "f", "a", "n", "-", "s", "c", "r", "a", "p", "e", "r">>)))))))))

\* what parse_event_datetime returns for the date and time of evt_data
event_datetime(evt_data, now) ==
    parse_event_datetime(Get(evt_data, "date", PyStr(<<>>)), Get(evt_data, "time", PyStr(<<>>)), now)

\* create_ics_calendar(events, calendar_name) run when datetime.now() is now:
\* the Calendar, or the exception parse_event_datetime raised
create_ics_calendar(evts, calendar_name, now) ==
    IF \E i \in DOMAIN evts : event_datetime(evts[i], now).kind = "raise"
    THEN Raised("AttributeError")
    ELSE [kind |-> "calendar",
          properties |-> calendar_properties(calendar_name),
          components |-> [i \in DOMAIN evts |->
                             calendar_event(evts[i], event_datetime(evts[i], now))]]

get_sample_events ==
    << [title |-> PyStr(<<"G", "i", "r", "l", "s", " ", "B", "a", "s", "k", "e", "t", "b", "a", "l", "l", " ", "v", "s", " ", "N", "o", "r", "t", "h", " ", "O", "l", "d", "h", "a", "m">>),
        date |-> PyStr(<<"D", "e", "c", "e", "m", "b", "e", "r", " ", "1", "2", ",", " ", "2", "0", "2", "4">>),
        time |-> PyStr(<<"6", ":", "0", "0", " ", "P", "M">>),
        venue |-> PyStr(<<"S", "o", "u", "t", "h", " ", "O", "l", "d", "h", "a", "m", " ", "H", "i", "g", "h", " ", "S", "c", "h", "o", "o", "l", " ", "G", "y", "m">>),
        address |-> PyStr(<<"6", "4", "0", "3", " ", "W", " ", "H", "i", "g", "h", "w", "a", "y", " ", "1", "4", "6", ",", " ", "C", "r", "e", "s", "t", "w", "o", "o", "d", ",", " ", "K", "Y", " ", "4", "0", "0", "1", "4">>),
        ticket_url |-> PyStr(<<"h", "t", "t", "p", "s", ":", "/", "/", "g", "o", "f", "a", "n", ".", "c", "o", "/", "e", "v", "e", "n", "t", "/", "1", "2", "3", "4", "5", "6">>),
        opponent |-> PyStr(<<"N", "o", "r", "t", "h", " ", "O", "l", "d", "h", "a", "m">>)],
       [title |-> PyStr(<<"G", "i", "r", "l", "s", " ", "B", "a", "s", "k", "e", "t", "b", "a", "l", "l", " ", "v", "s", " ", "O", "l", "d", "h", "a", "m", " ", "C", "o", "u", "n", "t", "y">>),
        date |-> PyStr(<<"D", "e", "c", "e", "m", "b", "e", "r", " ", "1", "7", ",", " ", "2", "0", "2", "4">>),
        time |-> PyStr(<<"7", ":", "3", "0", " ", "P", "M">>),
        venue |-> PyStr(<<"S", "o", "u", "t", "h", " ", "O", "l", "d", "h", "a", "m", " ", "H", "i", "g", "h", " ", "S", "c", "h", "o", "o", "l", " ", "G", "y", "m">>),
        address |-> PyStr(<<"6", "4", "0", "3", " ", "W", " ", "H", "i", "g", "h", "w", "a", "y", " ", "1", "4", "6", ",", " ", "C", "r", "e", "s", "t", "w", "o", "o", "d", ",", " ", "K", "Y", " ", "4", "0", "0", "1", "4">>),
        ticket_url |-> PyStr(<<"h", "t", "t", "p", "s", ":", "/", "/", "g", "o", "f", "a", "n", ".", "c", "o", "/", "e", "v", "e", "n", "t", "/", "1", "2", "3", "4", "5", "7">>),
        opponent |-> PyStr(<<"O", "l", "d", "h", "a", "m", " ", "C", "o", "u", "n", "t", "y">>)],
       [title |-> PyStr(<<"G", "i", "r", "l", "s", " ", "B", "a", "s", "k", "e", "t", "b", "a", "l", "l", " ", "@", " ", "E", "a", "s", "t", "e", "r", "n">>),
        date |-> PyStr(<<"J", "a", "n", "u", "a", "r", "y", " ", "3", ",", " ", "2", "0", "2", "5">>),
        time |-> PyStr(<<"6", ":", "0", "0", " ", "P", "M">>),
        venue |-> PyStr(<<"E", "a", "s", "t", "e", "r", "n", " ", "H", "i", "g", "h", " ", "S", "c", "h", "o", "o", "l">>),
        ticket_url |-> PyStr(<<"h", "t", "t", "p", "s", ":", "/", "/", "g", "o", "f", "a", "n", ".", "c", "o", "/", "e", "v", "e", "n", "t", "/", "1", "2", "3", "4", "5", "8">>),
        opponent |-> PyStr(<<"E", "a", "s", "t", "e", "r", "n">>)],
       [title |-> PyStr(<<"G", "i", "r", "l", "s", " ", "B", "a", "s", "k", "e", "t", "b", "a", "l", "l", " ", "v", "s", " ", "B", "a", "l", "l", "a", "r", "d">>),
        date |-> PyStr(<<"J", "a", "n", "u", "a", "r", "y", " ", "1", "0", ",", " ", "2", "0", "2", "5">>),
        time |-> PyStr(<<"7", ":", "3", "0", " ", "P", "M">>),
        venue |-> PyStr(<<"S", "o", "u", "t", "h", " ", "O", "l", "d", "h", "a", "m", " ", "H", "i", "g", "h", " ", "S", "c", "h", "o", "o", "l", " ", "G", "y", "m">>),
        address |-> PyStr(<<"6", "4", "0", "3", " ", "W", " ", "H", "i", "g", "h", "w", "a", "y", " ", "1", "4", "6", ",", " ", "C", "r", "e", "s", "t", "w", "o", "o", "d", ",", " ", "K", "Y", " ", "4", "0", "0", "1", "4">>),
        ticket_url |-> PyStr(<<"h", "t", "t", "p", "s", ":", "/", "/", "g", "o", "f", "a", "n", ".", "c", "o", "/", "e", "v", "e", "n", "t", "/", "1", "2", "3", "4", "5", "9">>),
        opponent |-> PyStr(<<"B", "a", "l", "l", "a", "r", "d">>)] >>

(***************************************************************************)
(* The pages the site may serve                                            *)
(***************************************************************************)
\* the longest list of objects, cards or links on a page
MaxRecords == 2

SeqsUpTo(S, n) == UNION {[1..k -> S] : k \in 0..n}

EventObjects ==
    {\* a full event object
     JsonDict(<<[k |-> "eventName", v |-> PyStr(<<"A", " ", "v", "s", " ", "B">>)], [k |-> "eventDate", v |-> PyStr(<<"D", "e", "c", " ", "8">>)], [k |-> "startTime", v |-> PyStr(<<"7", ":", "0", "0", " ", "P", "M">>)], [k |-> "venueName", v |-> PyStr(<<"G", "y", "m">>)]>>),
     \* a venue with neither a name nor a date of an event
     JsonDict(<<[k |-> "venueName", v |-> PyStr(<<"G", "y", "m">>)]>>),
     \* not event-like: none of the four keys
     JsonDict(<<[k |-> "name", v |-> PyStr(<<"C", "a", "m", "p">>)], [k |-> "date", v |-> PyStr(<<"J", "u", "n", " ", "1">>)]>>),
     \* an event whose date is yet to be announced
     JsonDict(<<[k |-> "eventName", v |-> PyStr(<<"C", "l", "a", "s", "s", "i", "c">>)], [k |-> "eventDate", v |-> PyStr(<<"T", "B", "D">>)]>>),
     \* an event-like object inside an event-like object
     JsonDict(<<[k |-> "eventName", v |-> PyStr(<<"O", "u", "t", "e", "r">>)], [k |-> "eventDate", v |-> PyStr(<<"J", "a", "n", " ", "5", " ", "2", "0", "2", "6">>)], [k |-> "venue", v |-> JsonDict(<<[k |-> "venueName", v |-> PyStr(<<"G", "y", "m">>)]>>)]>>),
     \* null and empty first aliases
     JsonDict(<<[k |-> "eventName", v |-> PyStr(<<>>)], [k |-> "title", v |-> PyStr(<<"T">>)], [k |-> "eventDate", v |-> PyNone], [k |-> "startDate", v |-> PyStr(<<"2", "0", "2", "5", "-", "0", "1", "-", "1", "5">>)], [k |-> "startTime", v |-> PyStr(<<"1", "9", ":", "0", "0">>)]>>),
     \* a date that is a number, not a string
     JsonDict(<<[k |-> "eventName", v |-> PyStr(<<"X">>)], [k |-> "eventDate", v |-> PyInt(20251208)]>>)}

\* the __NEXT_DATA__ script: absent, without a string, not JSON, or a document
NoScript == [tag |-> "absent"]

NextDataOf(objects) ==
    [tag |-> "json",
     data |-> JsonDict(<<[k |-> "props",
                          v |-> JsonDict(<<[k |-> "events", v |-> JsonList(objects)]>>)]>>)]

NextDatas ==
    {NoScript, [tag |-> "nostring"], [tag |-> "malformed"],
     [tag |-> "json", data |-> PyNone]}
    \cup {NextDataOf(objects) : objects \in SeqsUpTo(EventObjects, MaxRecords)}

EventCards ==
    {("event-tag" :> <<"H", "o", "m", "e">> @@
      "day-of-week" :> <<"M", "o", "n">> @@
      "month-day-of-year" :> <<"D", "e", "c", " ", "8">> @@
      "time" :> <<"7", ":", "0", "0", " ", "P", "M">> @@
      "event-name" :> <<"O", "l", "d", "h", "a", "m", " ", "C", "o", "u", "n", "t", "y", " ", "C", "o", "l", "o", "n", "e", "l", "s", " ", "v", "s", " ", "K", "e", "n", "t", "u", "c", "k", "y", " ", "C", "o", "u", "n", "t", "r", "y", " ", "B", "e", "a", "r", "c", "a", "t", "s">> @@
      "sport" :> <<"B", "a", "s", "k", "e", "t", "b", "a", "l", "l">> @@
      "activity-levels" :> <<"G", "i", "r", "l", "s", " ", "V", "a", "r", "s", "i", "t", "y">> @@
      "more-info" :> <<"O", "l", "d", "h", "a", "m", " ", "C", "o", "u", "n", "t", "y", " ", "H", "i", "g", "h", " ", "S", "c", "h", "o", "o", "l", " ", "(", "B", "u", "c", "k", "n", "e", "r", ",", " ", "K", "Y", ")">> @@
      "href" :> <<"/", "e", "v", "e", "n", "t", "/", "5", "2", "1", "2", "7", "5", "3", "?", "s", "c", "h", "o", "o", "l", "I", "d", "=", "K", "Y", "6", "2", "0", "7">>),
     ("event-tag" :> <<"A", "w", "a", "y">> @@
      "month-day-of-year" :> <<"J", "a", "n", " ", "5">> @@
      "year" :> <<"2", "0", "2", "6">> @@
      "time" :> <<"6", ":", "0", "0", " ", "P", "M">> @@
      "event-name" :> <<"S", "o", "u", "t", "h", "e", "r", "n", " ", "T", "r", "o", "j", "a", "n", "s", " ", "v", "s", " ", "O", "l", "d", "h", "a", "m", " ", "C", "o", "u", "n", "t", "y">> @@
      "activity-levels" :> <<"B", "o", "y", "s", " ", "J", "V", "/", "V", "a", "r", "s", "i", "t", "y">> @@
      "href" :> <<"h", "t", "t", "p", "s", ":", "/", "/", "g", "o", "f", "a", "n", ".", "c", "o", "/", "e", "v", "e", "n", "t", "/", "7", "7">>),
     ("event-tag" :> <<"H", "o", "m", "e">> @@
      "event-name" :> <<"R", "o", "n", "a", "l", "d", " ", "M", "c", "D", "o", "n", "a", "l", "d", " ", "H", "o", "u", "s", "e", " ", "C", "l", "a", "s", "s", "i", "c">> @@
      "sport" :> <<"B", "a", "s", "k", "e", "t", "b", "a", "l", "l">>),
     ("month-day-of-year" :> <<"D", "e", "c", " ", "1", "2">> @@
      "activity-levels" :> <<"G", "i", "r", "l", "s", " ", "J", "V">>)}

EventLinks ==
    {[href |-> <<"/", "e", "v", "e", "n", "t", "/", "5", "2", "1", "2", "7", "5", "3">>, text |-> <<"B", "u", "y", " ", "t", "i", "c", "k", "e", "t", "s">>, parent |-> TRUE,
      lines |-> <<<<"H", "o", "m", "e">>, <<"M", "o", "n", " ", "D", "e", "c", " ", "8">>, <<"7", ":", "0", "0", " ", "P", "M">>, <<"A", " ", "v", "s", " ", "B">>, <<"B", "u", "y", " ", "t", "i", "c", "k", "e", "t", "s">>>>],
     [href |-> <<"h", "t", "t", "p", "s", ":", "/", "/", "g", "o", "f", "a", "n", ".", "c", "o", "/", "e", "v", "e", "n", "t", "/", "9">>, text |-> <<>>, parent |-> TRUE,
      lines |-> <<<<"G", "a", "m", "e", " ", "3">>, <<"S", "t", "a", "r", "t", "s", " ", "6", ":", "3", "0", "p", "m">>>>],
     [href |-> <<"/", "e", "v", "e", "n", "t", "/", "1", "0">>, text |-> <<"T", "i", "c", "k", "e", "t", "s">>, parent |-> FALSE,
      lines |-> <<>>]}

OneCard == CHOOSE c \in EventCards : "more-info" \in DOMAIN c

OneLink == CHOOSE l \in EventLinks : l.parent /\ l.text # <<>>

Pages ==
    {[next_data |-> n, cards |-> c, links |-> l] :
        n \in NextDatas, c \in {<<>>, <<OneCard>>}, l \in {<<>>, <<OneLink>>}}
    \cup {[next_data |-> n, cards |-> c, links |-> l] :
        n \in {NoScript, NextDataOf(<<>>)}, c \in SeqsUpTo(EventCards, MaxRecords),
        l \in {<<>>, <<OneLink>>}}
    \cup {[next_data |-> NoScript, cards |-> c, links |-> l] :
        c \in {<<>>}, l \in SeqsUpTo(EventLinks, MaxRecords)}

NoPage == [next_data |-> NoScript, cards |-> <<>>, links |-> <<>>]

NoCalendar == [kind |-> "none"]

(***************************************************************************)
(* Spec: one run of main                                                   *)
(***************************************************************************)
\* the scripts other than gofan_scraper are not running
LensIdle ==
    /\ PREFIX = <<>>
    /\ buckets = <<>>
    /\ bucketList = <<>>
    /\ put_calls = <<>>
    /\ lens_log = <<>>
    /\ lpc = "idle"

ScoreIdle ==
    /\ score_answers = <<>>
    /\ scoreValues = <<>>
    /\ queries = <<>>
    /\ stdout = <<>>
    /\ spc = "idle"

PricesIdle ==
    /\ cache = <<>>
    /\ http_calls = <<>>
    /\ dl_calls = <<>>
    /\ served = <<>>
    /\ sent = <<>>
    /\ available_price_lists = <<>>
    /\ next_token = PyNone
    /\ returned = PyNone
    /\ npc = "idle"

OtherIdle == LensIdle /\ ScoreIdle /\ PricesIdle

ParseIdle ==
    /\ src = DateLiteral("empty", <<>>)
    /\ tsrc = NoTime
    /\ date_str = PyStr(<<>>)
    /\ time_str = PyStr(<<>>)
    /\ result = NoDateTime
    /\ again = NoDateTime
    /\ ppc = "idle"

CardIdle ==
    /\ csrc = [tag |-> <<>>, date |-> <<>>, year |-> <<>>, name |-> [kind |-> "none"],
               levels |-> <<>>, rest |-> FALSE]
    /\ card_in = EmptyDict
    /\ card_event = PyNone
    /\ cpc = "idle"

Init ==
    /\ pc = "main"
    /\ args \in [test : BOOLEAN, url : BOOLEAN]
    /\ scroll = 0
    /\ page = NoPage
    /\ events = <<>>
    /\ calls = <<>>
    /\ cal = NoCalendar
    /\ out_file = NoCalendar
    /\ log = <<>>
    /\ error = "none"
    /\ today \in {Now(2024, 12, 31), Now(2025, 7, 15)}
    /\ ParseIdle
    /\ CardIdle
    /\ OtherIdle

\* main up to the call that gets the events
Main ==
    /\ pc = "main"
    /\ IF args.test THEN events' = get_sample_events /\ pc' = "found"
       ELSE IF args.url THEN events' = events /\ pc' = "goto"
       ELSE events' = events /\ pc' = "exit"
    /\ UNCHANGED <<args, scroll, page, calls, cal, out_file, log, error, pvars, cvars, xvars>>

\* page.goto: the page loads, or the navigation fails or times out and the
\* exception leaves scrape_gofan_events and main
Goto ==
    /\ pc = "goto"
    /\ \/ pc' = "wait" /\ error' = error
       \/ pc' = "raised" /\ error' = "goto"
    /\ UNCHANGED <<args, scroll, page, events, calls, cal, out_file, log, pvars, cvars, xvars>>

\* WaitForSelector as it would be without the try/except
WaitForSelectorUncaught ==
    /\ pc = "wait"
    /\ \/ /\ log' = Append(log, "Found event-related elements")
          /\ pc' = "settle"
          /\ error' = error
       \/ /\ log' = log
          /\ pc' = "raised"
          /\ error' = "TimeoutError"
    /\ UNCHANGED <<args, scroll, page, events, calls, cal, out_file, pvars, cvars, xvars>>

\* page.wait_for_selector in its try/except
WaitForSelector ==
    /\ pc = "wait"
    /\ \/ log' = Append(log, "Found event-related elements")
       \/ log' = Append(log, "No event selectors found, continuing anyway...")
    /\ pc' = "settle"
    /\ UNCHANGED <<args, scroll, page, events, calls, cal, out_file, error, pvars, cvars, xvars>>

\* page.wait_for_timeout(3000)
Settle ==
    /\ pc = "settle"
    /\ scroll' = 0
    /\ pc' = "scroll"
    /\ UNCHANGED <<args, page, events, calls, cal, out_file, log, error, pvars, cvars, xvars>>

\* one round of the scroll loop
Scroll ==
    /\ pc = "scroll"
    /\ scroll < 3
    /\ scroll' = scroll + 1
    /\ UNCHANGED <<pc, args, page, events, calls, cal, out_file, log, error, pvars, cvars, xvars>>

\* content = page.content(); soup = BeautifulSoup(content, 'html.parser')
Content ==
    /\ pc = "scroll"
    /\ scroll = 3
    /\ page' \in Pages
    /\ pc' = "strategy1"
    /\ UNCHANGED <<args, scroll, events, calls, cal, out_file, log, error, pvars, cvars, xvars>>

\* Strategy1 as it would be without the early return: the cards are read
\* even when the script gave events
Strategy1NoReturn ==
    /\ pc = "strategy1"
    /\ IF page.next_data.tag = "absent" \/ page.next_data.tag = "malformed"
       THEN /\ pc' = "strategy2"
            /\ UNCHANGED <<events, calls, error>>
       ELSE IF page.next_data.tag = "nostring"
       THEN /\ pc' = "raised"
            /\ error' = "TypeError"
            /\ UNCHANGED <<events, calls>>
       ELSE /\ events' = extract_events_from_nextdata(page.next_data.data)
            /\ calls' = Append(calls, [fn |-> "extract_events_from_nextdata", out |-> events'])
            /\ pc' = "strategy2"
            /\ error' = error
    /\ UNCHANGED <<args, scroll, page, cal, out_file, log, pvars, cvars, xvars>>

\* Strategy 1: the __NEXT_DATA__ script
Strategy1 ==
    /\ pc = "strategy1"
    /\ IF page.next_data.tag = "absent" \/ page.next_data.tag = "malformed"
       THEN /\ pc' = "strategy2"
            /\ UNCHANGED <<events, calls, error>>
       ELSE IF page.next_data.tag = "nostring"
       THEN /\ pc' = "raised"
            /\ error' = "TypeError"
            /\ UNCHANGED <<events, calls>>
       ELSE /\ events' = extract_events_from_nextdata(page.next_data.data)
            /\ calls' = Append(calls, [fn |-> "extract_events_from_nextdata", out |-> events'])
            /\ pc' = IF events' # <<>> THEN "found" ELSE "strategy2"
            /\ error' = error
    /\ UNCHANGED <<args, scroll, page, cal, out_file, log, pvars, cvars, xvars>>

\* Strategy 2: the event cards
Strategy2 ==
    /\ pc = "strategy2"
    /\ events' = events \o extract_events_from_cards(page.cards)
    /\ calls' = Append(calls, [fn |-> "extract_event_from_card_structured",
                               out |-> extract_events_from_cards(page.cards)])
    /\ pc' = "strategy3"
    /\ UNCHANGED <<args, scroll, page, cal, out_file, log, error, pvars, cvars, xvars>>

\* Strategy 3: the text around the event links, if there are no events yet
Strategy3 ==
    /\ pc = "strategy3"
    /\ IF events = <<>>
       THEN /\ events' = extract_events_from_text(page.links)
            /\ calls' = Append(calls, [fn |-> "extract_events_from_text", out |-> events'])
       ELSE UNCHANGED <<events, calls>>
    /\ pc' = "found"
    /\ UNCHANGED <<args, scroll, page, cal, out_file, log, error, pvars, cvars, xvars>>

\* main without the test of the event list: a calendar is made and written
\* whatever the list holds
FoundAlwaysWrites ==
    /\ pc = "found"
    /\ LET made == create_ics_calendar(events, "GoFan Events", today)
       IN  IF made.kind = "raise"
           THEN /\ pc' = "raised"
                /\ error' = made.exc
                /\ UNCHANGED <<cal, out_file, log>>
           ELSE /\ cal' = made
                /\ out_file' = made
                /\ log' = Append(log, "Calendar saved")
                /\ pc' = "done"
                /\ error' = error
    /\ UNCHANGED <<args, scroll, page, events, calls, pvars, cvars, xvars>>

\* main from "Found ... events" on: the calendar is made and written, or
\* "No events found" is printed
Found ==
    /\ pc = "found"
    /\ IF events # <<>>
       THEN LET made == create_ics_calendar(events, "GoFan Events", today)
            IN  IF made.kind = "raise"
                THEN /\ pc' = "raised"
                     /\ error' = made.exc
                     /\ UNCHANGED <<cal, out_file, log>>
                ELSE /\ cal' = made
                     /\ out_file' = made
                     /\ log' = Append(log, "Calendar saved")
                     /\ pc' = "done"
                     /\ error' = error
       ELSE /\ log' = Append(log, "No events found")
            /\ pc' = "done"
            /\ UNCHANGED <<cal, out_file, error>>
    /\ UNCHANGED <<args, scroll, page, events, calls, pvars, cvars, xvars>>

Next ==
    \/ Main
    \/ Goto
    \/ WaitForSelector
    \/ Settle
    \/ Scroll
    \/ Content
    \/ Strategy1
    \/ Strategy2
    \/ Strategy3
    \/ Found

Spec == Init /\ [][Next]_vars

(***************************************************************************)
(* SpecParse: parse_event_datetime applied to one date and time string,    *)
(* then to the string form of the instant it returned.                     *)
(***************************************************************************)
ScrapeIdle ==
    /\ pc = "idle"
    /\ args = [test |-> FALSE, url |-> FALSE]
    /\ scroll = 0
    /\ page = NoPage
    /\ events = <<>>
    /\ calls = <<>>
    /\ cal = NoCalendar
    /\ out_file = NoCalendar
    /\ log = <<>>
    /\ error = "none"

InitParse ==
    /\ ScrapeIdle
    /\ CardIdle
    /\ OtherIdle
    /\ \/ src \in NoYearInputs \cup RelativeInputs \cup OtherInputs
          /\ tsrc = NoTime
          /\ today \in Todays
       \/ /\ src \in YearInputs \cup AbsoluteInputs
          /\ tsrc = NoTime
          /\ today \in {Now(2024, 12, 31), Now(2025, 1, 15), Now(2025, 7, 15), Now(2025, 8, 15)}
       \/ /\ src \in {DateInput("md", TRUE, FALSE, 12, 8, 0),
                      DateInput("iso", FALSE, FALSE, 1, 15, 2025)} \cup RelativeInputs
          /\ tsrc \in TimeInputs
          /\ today \in {Now(2024, 12, 31), Now(2025, 7, 15)}
    /\ date_str = PyStr(DateText(src))
    /\ time_str = PyStr(TimeText(tsrc))
    /\ result = NoDateTime
    /\ again = NoDateTime
    /\ ppc = "call"

Parse ==
    /\ ppc = "call"
    /\ result' = parse_event_datetime(date_str, time_str, today)
    /\ ppc' = "returned"
    /\ UNCHANGED <<today, src, tsrc, date_str, time_str, again, svars, cvars, xvars>>

Reparse ==
    /\ ppc = "returned"
    /\ result.kind = "dt"
    /\ \E offset \in UtcOffsets :
           again' = parse_event_datetime(PyStr(datetime_str(result, offset)), PyStr(<<>>), today)
    /\ ppc' = "reparsed"
    /\ UNCHANGED <<today, src, tsrc, date_str, time_str, result, svars, cvars, xvars>>

NextParse == Parse \/ Reparse

SpecParse == InitParse /\ [][NextParse]_vars

(***************************************************************************)
(* SpecCalendar: create_ics_calendar applied to one list of event records  *)
(***************************************************************************)
\* an event record with all of the keys create_ics_calendar reads
CalEvent(title, date, time, venue, ticket_url) ==
    [title |-> PyStr(title), date |-> PyStr(date), time |-> PyStr(time),
     venue |-> PyStr(venue), ticket_url |-> PyStr(ticket_url)]

\* date strings: without and with a year, at the end of a month and of a year,
\* on a leap day, relative, and one nothing parses
CalDates ==
    {<<"M", "o", "n", " ", "D", "e", "c", " ", "8">>, <<"D", "e", "c", " ", "3", "1">>, <<"F", "e", "b", " ", "2", "8">>, <<"F", "e", "b", " ", "2", "9">>, <<"t", "o", "d", "a", "y">>, <<"T", "o", "m", "o", "r", "r", "o", "w">>, <<"1", "2", "/", "3", "1", "/", "2", "0", "2", "5">>, <<"J", "a", "n", " ", "5", " ", "2", "0", "2", "6">>, <<"T", "B", "D">>}

\* time strings: none, evening, and within two hours of midnight
CalTimes ==
    {<<>>, <<"7", ":", "0", "0", " ", "P", "M">>, <<"1", "0", ":", "0", "0", " ", "P", "M">>, <<"1", "1", ":", "3", "0", " ", "P", "M">>, <<"2", "1", ":", "5", "9">>, <<"2", "2", ":", "0", "0">>}

StartEvents ==
    {CalEvent(<<"v", "s", " ", "B">>, d, tm, <<"G", "y", "m">>, <<>>) : d \in CalDates, tm \in CalTimes}

\* records that differ in date, title, time, venue and ticket URL, with the
\* characters re.sub keeps and removes, and records without a date or a title
UidEvents ==
    {CalEvent(title, d, tm, v, v) :
        title \in {<<"v", "s", " ", "S", "t", ".", " ", "X", "-", "Y">>, <<"A", "@", "B", "_", "c", " ", "d">>}, d \in {<<"D", "e", "c", " ", "8">>, <<"1", "2", "/", "0", "8", "/", "2", "0", "2", "5">>},
        tm \in {<<>>, <<"7", ":", "0", "0", " ", "P", "M">>}, v \in {<<>>, <<"G", "y", "m">>}}
    \cup {[title |-> PyStr(<<"v", "s", " ", "S", "t", ".", " ", "X", "-", "Y">>)], [date |-> PyStr(<<"D", "e", "c", " ", "8">>)],
          [title |-> PyNone, date |-> PyStr(<<"D", "e", "c", " ", "8">>)]}

\* every day of the year y
DaysOf(y) ==
    {n \in {Now(y, m, d) : m \in 1..12, d \in 1..31} : ValidDate(n.year, n.month, n.day)}

InitCalendar ==
    /\ pc = "calendar"
    /\ args = [test |-> FALSE, url |-> FALSE]
    /\ scroll = 0
    /\ page = NoPage
    /\ calls = <<>>
    /\ cal = NoCalendar
    /\ out_file = NoCalendar
    /\ log = <<>>
    /\ error = "none"
    /\ ParseIdle
    /\ CardIdle
    /\ OtherIdle
    /\ \/ /\ events \in {<<e>> : e \in StartEvents}
          /\ today \in {Now(2024, 2, 28), Now(2024, 12, 31), Now(2025, 7, 15)}
       \/ /\ events \in SeqsUpTo(UidEvents, MaxRecords) \ {<<>>}
          /\ today = Now(2025, 7, 15)
       \/ /\ events = <<CalEvent(<<"v", "s", " ", "B">>, <<"M", "o", "n", " ", "D", "e", "c", " ", "8">>, <<"7", ":", "0", "0", " ", "P", "M">>, <<"G", "y", "m">>, <<>>)>>
          /\ today \in DaysOf(2024)
       \/ /\ events = get_sample_events
          /\ today \in Todays

\* cal = create_ics_calendar(events, args.calendar_name)
CreateCalendar ==
    /\ pc = "calendar"
    /\ With(create_ics_calendar(events, "GoFan Events", today), LAMBDA made :
           IF made.kind = "raise"
           THEN pc' = "raised" /\ error' = made.exc /\ cal' = cal
           ELSE pc' = "made" /\ error' = error /\ cal' = made)
    /\ UNCHANGED <<args, scroll, page, events, calls, out_file, log, pvars, cvars, xvars>>

NextCalendar == CreateCalendar

SpecCalendar == InitCalendar /\ [][NextCalendar]_vars

(***************************************************************************)
(* SpecCard: extract_event_from_card_structured applied to one event card. *)
(* The card is written out from its elements: an element is absent, <<>>,  *)
(* or present with a text, <<text>>.                                       *)
(***************************************************************************)
\* the event-tag element: absent, Home, Away, another text, no text
CardTags == {<<>>, <<<<"H", "o", "m", "e">>>>, <<<<"A", "w", "a", "y">>>>, <<<<"N", "e", "u", "t", "r", "a", "l">>>>, <<<<"h", "o", "m", "e">>>>, << <<>> >>}

\* the month-day-of-year element with the year element
CardDates ==
    {[date |-> <<>>, year |-> <<>>],
     [date |-> <<<<"D", "e", "c", " ", "8">>>>, year |-> <<>>],
     [date |-> <<<<"J", "a", "n", " ", "5">>>>, year |-> <<<<"2", "0", "2", "6">>>>],
     [date |-> << <<>> >>, year |-> <<>>],
     [date |-> <<>>, year |-> <<<<"2", "0", "2", "6">>>>]}

\* the event-name element: absent, a matchup "A vs B", or another text
CardNames ==
    {[kind |-> "none"]}
    \cup {[kind |-> "vs", a |-> m[1], b |-> m[2]] :
            m \in {<<<<"A">>, <<"B">>>>,
                   <<<<"O", "l", "d", "h", "a", "m", " ", "C", "o", "u", "n", "t", "y", " ", "C", "o", "l", "o", "n", "e", "l", "s">>, <<"K", "e", "n", "t", "u", "c", "k", "y", " ", "C", "o", "u", "n", "t", "r", "y", " ", "B", "e", "a", "r", "c", "a", "t", "s">>>>,
                   <<<<"S", "o", "u", "t", "h", "e", "r", "n", " ", "T", "r", "o", "j", "a", "n", "s">>, <<"O", "l", "d", "h", "a", "m", " ", "C", "o", "u", "n", "t", "y">>>>}}
    \cup {[kind |-> "text", text |-> x] :
            x \in {<<"R", "o", "n", "a", "l", "d", " ", "M", "c", "D", "o", "n", "a", "l", "d", " ", "H", "o", "u", "s", "e", " ", "C", "l", "a", "s", "s", "i", "c">>, <<"A", " ", "v", "s", " ", "B", " ", "v", "s", " ", "C">>, <<"A", " ", " ", "v", "s", " ", " ", "B">>, <<"A", "v", "s", " ", "B">>, <<"A", " ", "V", "S", " ", "B">>, <<>>}}

\* the activity-levels element
CardLevels ==
    {<<>>, <<<<"G", "i", "r", "l", "s", " ", "V", "a", "r", "s", "i", "t", "y">>>>, <<<<"B", "o", "y", "s", " ", "J", "V", "/", "V", "a", "r", "s", "i", "t", "y">>>>, <<<<"V", "a", "r", "s", "i", "t", "y">>>>, <<<<"B", "o", "y", "s", " ", "a", "n", "d", " ", "G", "i", "r", "l", "s">>>>, <<<<"g", "i", "r", "l", "s", " ", "J", "V">>>>, << <<>> >>}

CardSources ==
    {[tag |-> tag, date |-> d.date, year |-> d.year, name |-> name, levels |-> levels,
      rest |-> rest] :
        tag \in CardTags, d \in CardDates, name \in CardNames, levels \in CardLevels,
        rest \in BOOLEAN}

\* the text of the event-name element
MatchupText(name) ==
    IF name.kind = "vs" THEN name.a \o VS \o name.b ELSE name.text

\* a card with (or without) the element for key
CardWith(c, key, element) == IF element = <<>> THEN c ELSE Put(c, key, element[1])

\* the elements of a card that the matchup and the date do not depend on
CardRest ==
    [k \in {"day-of-week", "time", "sport", "more-info", "href"} |-> OneCard[k]]

\* the card written from source s
CardOf(s) ==
    CardWith(CardWith(CardWith(CardWith(CardWith(
        IF s.rest THEN CardRest ELSE EmptyDict,
        "event-tag", s.tag),
        "month-day-of-year", s.date),
        "year", s.year),
        "event-name", IF s.name.kind = "none" THEN <<>> ELSE <<MatchupText(s.name)>>),
        "activity-levels", s.levels)

InitCard ==
    /\ ScrapeIdle
    /\ ParseIdle
    /\ OtherIdle
    /\ today = Now(2025, 7, 15)
    /\ csrc \in CardSources
    /\ card_in = CardOf(csrc)
    /\ card_event = PyNone
    /\ cpc = "call"

\* event_data = extract_event_from_card_structured(card, url)
ExtractCard ==
    /\ cpc = "call"
    /\ card_event' = extract_event_from_card_structured(card_in)
    /\ cpc' = "returned"
    /\ UNCHANGED <<csrc, card_in, pvars, svars, xvars>>

NextCard == ExtractCard

SpecCard == InitCard /\ [][NextCard]_vars

(***************************************************************************)
(* s3_storage_lens_subset.py                                               *)
(***************************************************************************)
MAXBUCKETS == 50

\* the most buckets of one kind in the account
MaxListed == 52

\* the JMESPath literal `prefix`: the text between the backticks is read as
\* JSON, and as a string when it is not JSON
jmes_literal(prefix) ==
    IF prefix # <<>> /\ (\A i \in DOMAIN prefix : prefix[i] \in DigitChars)
                     /\ (prefix[1] # "0" \/ Len(prefix) = 1)
    THEN [t |-> "number"]
    ELSE IF prefix \in {<<"t", "r", "u", "e">>, <<"f", "a", "l", "s", "e">>, <<"n", "u", "l", "l">>}
    THEN [t |-> "other"]
    ELSE PyStr(prefix)

\* getBucketsByPrefix as it would be if the query had no filter
getBucketsUnfiltered(names, prefix) ==
    [kind |-> "list", names |-> names]

\* getBucketsByPrefix(s3client, prefix), names being the Name of each bucket
\* of the list_buckets response: the names starts_with accepts, or the error
\* starts_with raises for an argument that is not a string
getBucketsByPrefix(names, prefix) ==
    With(jmes_literal(prefix), LAMBDA literal :
        IF names = <<>> THEN [kind |-> "list", names |-> <<>>]
        ELSE IF literal.t # "str" THEN Raised("JMESPathTypeError")
        ELSE [kind |-> "list",
              names |-> SelectSeq(names, LAMBDA name : StartsAt(literal.v, name, 1))])

\* the bucket names of an account: n names that begin with prefix, and other
\* names before, among and after them
OtherNames ==
    <<<<"z", "z", "-", "l", "o", "g", "s">>, <<"e">>, <<"b", "a", "c", "k", "u", "p", "-", "e", "p", "-", "1">>>>

BucketListing(prefix, n, others, first) ==
    [i \in 1..(n + others) |->
        IF i >= first /\ i < first + others THEN OtherNames[i - first + 1]
        ELSE prefix \o Decimal(IF i < first THEN i ELSE i - others)]

LensPrefixes == {<<"e", "p", "-">>, <<>>, <<"2", "0", "2", "4">>, <<"t", "r", "u", "e">>}

Listings(prefix) ==
    {BucketListing(prefix, n, others, first) :
        n \in 0..MaxListed, others \in 0..3, first \in {1, 2}}

InitLens ==
    /\ ScrapeIdle
    /\ ParseIdle
    /\ CardIdle
    /\ today = Now(2025, 7, 15)
    /\ PREFIX \in LensPrefixes
    /\ buckets \in Listings(PREFIX)
    /\ bucketList = <<>>
    /\ put_calls = <<>>
    /\ lens_log = <<>>
    /\ lpc = "main"
    /\ ScoreIdle
    /\ PricesIdle

\* main up to the clients: the boto3 version is checked and the account id is
\* asked for
LensMain ==
    /\ lpc = "main"
    /\ \/ /\ lens_log' = Append(lens_log, "Your Boto3 version is less than 1.16.21")
          /\ lpc' = "exit"
       \/ /\ lens_log' = <<"Script version", "Starting Boto Session">>
          /\ lpc' \in {"getBucketsByPrefix", "raised"}
    /\ UNCHANGED <<PREFIX, buckets, bucketList, put_calls, pvars, svars, cvars, qvars, dvars, nvars>>

\* bucketList = getBucketsByPrefix(S3CLIENT, PREFIX): list_buckets answers or
\* fails, and the query is run on the answer
GetBucketsByPrefix ==
    /\ lpc = "getBucketsByPrefix"
    /\ \/ /\ lpc' = "raised"
          /\ bucketList' = bucketList
       \/ With(getBucketsByPrefix(buckets, PREFIX), LAMBDA answers :
              IF answers.kind = "raise"
              THEN lpc' = "raised" /\ bucketList' = bucketList
              ELSE lpc' = "check" /\ bucketList' = answers.names)
    /\ UNCHANGED <<PREFIX, buckets, put_calls, lens_log, pvars, svars, cvars, qvars, dvars, nvars>>

\* main: the length of bucketList against MAXBUCKETS
CheckMaxBuckets ==
    /\ lpc = "check"
    /\ IF Len(bucketList) > MAXBUCKETS
       THEN /\ lens_log' = Append(lens_log, "Sorry, found buckets and the max is")
            /\ lpc' = "done"
       ELSE /\ lens_log' = Append(lens_log, "Found (out of MAX) for AWS S3 Storage Lens Dashboard")
            /\ lpc' = "putStorageLens"
    /\ UNCHANGED <<PREFIX, buckets, bucketList, put_calls, pvars, svars, cvars, qvars, dvars, nvars>>

\* putStorageLens(S3CLIENT, S3CONTROL, bucketList, DASHBOARDNAME, ACCOUNTID):
\* the call is recorded whether it succeeds or raises
PutStorageLens ==
    /\ lpc = "putStorageLens"
    /\ With([i \in DOMAIN bucketList |-> <<"a", "r", "n", ":", "a", "w", "s", ":", "s", "3", ":", ":", ":">> \o bucketList[i]], LAMBDA includeBucketList :
           IF Len(includeBucketList) > MAXBUCKETS
           THEN /\ lens_log' = Append(lens_log, "Sorry, found buckets and the max is.")
                /\ put_calls' = put_calls
                /\ lpc' = "done"
           ELSE /\ lens_log' = Append(lens_log, "Modifying dashboard with new configuration")
                /\ put_calls' = Append(put_calls, includeBucketList)
                /\ lpc' \in {"done", "raised"})
    /\ UNCHANGED <<PREFIX, buckets, bucketList, pvars, svars, cvars, qvars, dvars, nvars>>

NextLens ==
    \/ LensMain
    \/ GetBucketsByPrefix
    \/ CheckMaxBuckets
    \/ PutStorageLens

SpecLens == InitLens /\ [][NextLens]_vars

(***************************************************************************)
(* placementscore.py                                                       *)
(***************************************************************************)
\* the most availability zones in one answer
MaxZones == 2

\* response['SpotPlacementScores']: one entry for each availability zone
ScoreLists ==
    {[i \in DOMAIN scores |-> [AvailabilityZoneId |-> i, Score |-> scores[i]]] :
        scores \in SeqsUpTo({1, 5, 6, 10}, MaxZones)}

\* the loop over scoreValues: the value of scores_above_5 after it
scores_above_5(values) == Cardinality({i \in DOMAIN values : values[i].Score > 5})

InitScore ==
    /\ ScrapeIdle
    /\ ParseIdle
    /\ CardIdle
    /\ LensIdle
    /\ PricesIdle
    /\ today = Now(2025, 7, 15)
    /\ score_answers \in [1..2 -> ScoreLists]
    /\ scoreValues = <<>>
    /\ queries = <<>>
    /\ stdout = <<>>
    /\ spc = "main"

\* main up to the first query: the boto3 version is checked, the account id
\* is asked for and the client is made
ScoreMain ==
    /\ spc = "main"
    /\ spc' \in {"exit", "raised", "first"}
    /\ UNCHANGED <<score_answers, scoreValues, queries, stdout, pvars, svars, cvars, lvars, dvars, nvars>>

\* scoreValues = getScoreByInstanceType(...) with the two instance types
GetScoreFirst ==
    /\ spc = "first"
    /\ queries' = Append(queries, <<"r5.4xlarge", "r5.8xlarge">>)
    /\ \/ scoreValues' = score_answers[1] /\ spc' = "counted"
       \/ scoreValues' = scoreValues /\ spc' = "raised"
    /\ UNCHANGED <<score_answers, stdout, pvars, svars, cvars, lvars, dvars, nvars>>

\* the first loop over scoreValues and the if/else after it: the message, or
\* the query with the three instance types
CountFirst ==
    /\ spc = "counted"
    /\ IF scores_above_5(scoreValues) > 0
       THEN /\ stdout' = Append(stdout, "You can use these machines")
            /\ spc' = "recount"
            /\ UNCHANGED <<scoreValues, queries>>
       ELSE /\ queries' = Append(queries, <<"r5.4xlarge", "r5.8xlarge", "r5.12xlarge">>)
            /\ \/ scoreValues' = score_answers[2] /\ spc' = "recount"
               \/ scoreValues' = scoreValues /\ spc' = "raised"
            /\ stdout' = stdout
    /\ UNCHANGED <<score_answers, pvars, svars, cvars, lvars, dvars, nvars>>

\* the second loop over scoreValues and the if after it
CountLast ==
    /\ spc = "recount"
    /\ stdout' = IF scores_above_5(scoreValues) > 0
                 THEN Append(stdout, "You can use these machines") ELSE stdout
    /\ spc' = "done"
    /\ UNCHANGED <<score_answers, scoreValues, queries, pvars, svars, cvars, lvars, dvars, nvars>>

NextScore ==
    \/ ScoreMain
    \/ GetScoreFirst
    \/ CountFirst
    \/ CountLast

SpecScore == InitScore /\ [][NextScore]_vars

(***************************************************************************)
(* queryoldprices.py: download_price_list                                  *)
(***************************************************************************)
\* the most download_price_list calls in one run
MaxCalls == 3

\* re.search(r'/(\d{14})/', price_list_url).group(1), <<>> when nothing matches
url_timestamp(price_list_url) ==
    With({i \in 1..(Len(price_list_url) - 15) :
             /\ price_list_url[i] = "/"
             /\ \A j \in 1..14 : price_list_url[i + j] \in DigitChars
             /\ price_list_url[i + 15] = "/"}, LAMBDA hits :
        IF hits = {} THEN <<>>
        ELSE SubSeq(price_list_url, MinOf(hits) + 1, MinOf(hits) + 14))

\* cache_dir / f"{service_code}_{timestamp}.json"
cache_file(service_code, timestamp) ==
    <<"c", "a", "c", "h", "e", "/">> \o service_code \o <<"_">> \o timestamp \o <<".", "j", "s", "o", "n">>

\* json.dump(data, f, indent=3) and json.load(f): the text of a file and the
\* document read from it.  response.json() gives dicts with string keys,
\* lists, strings, numbers, booleans and None only, which the text keeps.
json_dump(data) == [indent |-> 3, text |-> data]

json_load(file) == file.text

\* the price-list documents a URL may serve
PriceListDatas ==
    {JsonDict(<<[k |-> "version", v |-> PyStr(ver)]>>) : ver \in {<<"1">>, <<"2">>}}

\* what requests.get, raise_for_status and response.json() come to
HttpResponses ==
    {[kind |-> "ok", json |-> d] : d \in PriceListDatas}
    \cup {Raised("HTTPError"), Raised("JSONDecodeError")}

\* download_price_list as it would be without the test of the cache file
download_price_list_uncached(price_list_url, service_code, files, response) ==
    With(url_timestamp(price_list_url), LAMBDA timestamp :
        IF timestamp = <<>>
        THEN [result |-> Raised("ValueError"), files |-> files, requested |-> FALSE]
        ELSE IF response.kind = "raise"
        THEN [result |-> response, files |-> files, requested |-> TRUE]
        ELSE [result |-> [kind |-> "data", json |-> response.json],
              files |-> Put(files, cache_file(service_code, timestamp), json_dump(response.json)),
              requested |-> TRUE])

\* download_price_list(price_list_url, service_code), files being the cache
\* directory and response what the URL serves if it is asked: what is
\* returned or raised, the cache directory afterwards, and whether
\* requests.get was called
download_price_list(price_list_url, service_code, files, response) ==
    With(url_timestamp(price_list_url), LAMBDA timestamp :
        IF timestamp = <<>>
        THEN [result |-> Raised("ValueError"), files |-> files, requested |-> FALSE]
        ELSE IF cache_file(service_code, timestamp) \in DOMAIN files
        THEN [result |-> [kind |-> "data",
                          json |-> json_load(files[cache_file(service_code, timestamp)])],
              files |-> files, requested |-> FALSE]
        ELSE IF response.kind = "raise"
        THEN [result |-> response, files |-> files, requested |-> TRUE]
        ELSE [result |-> [kind |-> "data", json |-> response.json],
              files |-> Put(files, cache_file(service_code, timestamp), json_dump(response.json)),
              requested |-> TRUE])

\* URLs with a timestamp, with the same timestamp on another path, with 13 and
\* 15 digits between slashes, and with 14 digits and no slash after them
PriceListUrls ==
    {<<"h", "t", "t", "p", "s", ":", "/", "/", "p", "r", "i", "c", "i", "n", "g", ".", "u", "s", "-", "e", "a", "s", "t", "-", "1", ".", "a", "m", "a", "z", "o", "n", "a", "w", "s", ".", "c", "o", "m", "/", "o", "f", "f", "e", "r", "s", "/", "v", "1", ".", "0", "/", "a", "w", "s", "/", "A", "m", "a", "z", "o", "n", "E", "C", "2", "/", "2", "0", "2", "5", "0", "4", "0", "8", "1", "6", "5", "7", "1", "8", "/", "i", "n", "d", "e", "x", ".", "j", "s", "o", "n">>,
     <<"h", "t", "t", "p", "s", ":", "/", "/", "p", "r", "i", "c", "i", "n", "g", ".", "u", "s", "-", "e", "a", "s", "t", "-", "1", ".", "a", "m", "a", "z", "o", "n", "a", "w", "s", ".", "c", "o", "m", "/", "o", "f", "f", "e", "r", "s", "/", "v", "1", ".", "0", "/", "a", "w", "s", "/", "A", "m", "a", "z", "o", "n", "E", "C", "2", "/", "2", "0", "2", "5", "0", "4", "0", "8", "1", "6", "5", "7", "1", "8", "/", "u", "s", "-", "e", "a", "s", "t", "-", "1", "/", "i", "n", "d", "e", "x", ".", "j", "s", "o", "n">>,
     <<"h", "t", "t", "p", "s", ":", "/", "/", "p", "r", "i", "c", "i", "n", "g", ".", "u", "s", "-", "e", "a", "s", "t", "-", "1", ".", "a", "m", "a", "z", "o", "n", "a", "w", "s", ".", "c", "o", "m", "/", "o", "f", "f", "e", "r", "s", "/", "v", "1", ".", "0", "/", "a", "w", "s", "/", "A", "m", "a", "z", "o", "n", "E", "C", "2", "/", "2", "0", "2", "5", "0", "4", "0", "8", "1", "6", "5", "7", "1", "/", "2", "0", "2", "5", "0", "4", "0", "8", "1", "6", "5", "7", "1", "8", "9", "/", "i", "n", "d", "e", "x", ".", "j", "s", "o", "n">>,
     <<"h", "t", "t", "p", "s", ":", "/", "/", "p", "r", "i", "c", "i", "n", "g", ".", "u", "s", "-", "e", "a", "s", "t", "-", "1", ".", "a", "m", "a", "z", "o", "n", "a", "w", "s", ".", "c", "o", "m", "/", "o", "f", "f", "e", "r", "s", "/", "v", "1", ".", "0", "/", "a", "w", "s", "/", "A", "m", "a", "z", "o", "n", "E", "C", "2", "/", "c", "u", "r", "r", "e", "n", "t", "/", "2", "0", "2", "5", "0", "4", "0", "8", "1", "6", "5", "7", "1", "8">>}

\* the arguments of the calls: each URL for AmazonEC2, one also for AmazonS3
DownloadArgs ==
    {<<u, <<"A", "m", "a", "z", "o", "n", "E", "C", "2">>>> : u \in PriceListUrls}
    \cup {<<<<"h", "t", "t", "p", "s", ":", "/", "/", "p", "r", "i", "c", "i", "n", "g", ".", "u", "s", "-", "e", "a", "s", "t", "-", "1", ".", "a", "m", "a", "z", "o", "n", "a", "w", "s", ".", "c", "o", "m", "/", "o", "f", "f", "e", "r", "s", "/", "v", "1", ".", "0", "/", "a", "w", "s", "/", "A", "m", "a", "z", "o", "n", "E", "C", "2", "/", "2", "0", "2", "5", "0", "4", "0", "8", "1", "6", "5", "7", "1", "8", "/", "i", "n", "d", "e", "x", ".", "j", "s", "o", "n">>, <<"A", "m", "a", "z", "o", "n", "S", "3">>>>}

InitDownload ==
    /\ ScrapeIdle
    /\ ParseIdle
    /\ CardIdle
    /\ LensIdle
    /\ ScoreIdle
    /\ today = Now(2025, 7, 15)
    /\ cache \in {EmptyDict,
                  Put(EmptyDict, cache_file(<<"A", "m", "a", "z", "o", "n", "E", "C", "2">>, <<"2", "0", "2", "5", "0", "4", "0", "8", "1", "6", "5", "7", "1", "8">>),
                      json_dump(JsonDict(<<[k |-> "version", v |-> PyStr(<<"0">>)]>>)))}
    /\ http_calls = <<>>
    /\ dl_calls = <<>>
    /\ served = <<>>
    /\ sent = <<>>
    /\ available_price_lists = <<>>
    /\ next_token = PyNone
    /\ returned = PyNone
    /\ npc = "idle"

\* one call price_list_data = download_price_list(price_list_url, service_code)
DownloadPriceList ==
    /\ Len(dl_calls) < MaxCalls
    /\ \E a \in DownloadArgs, response \in HttpResponses :
           With(download_price_list(a[1], a[2], cache, response), LAMBDA r :
               /\ cache' = r.files
               /\ http_calls' = IF r.requested THEN Append(http_calls, a[1]) ELSE http_calls
               /\ dl_calls' = Append(dl_calls,
                                     [price_list_url |-> a[1], service_code |-> a[2],
                                      result |-> r.result, requested |-> r.requested,
                                      before |-> cache]))
    /\ UNCHANGED <<served, sent, available_price_lists, next_token, returned, npc,
                   pvars, svars, cvars, lvars, qvars>>

NextDownload == DownloadPriceList

SpecDownload == InitDownload /\ [][NextDownload]_vars

(***************************************************************************)
(* queryoldprices.py: list_available_price_lists                           *)
(***************************************************************************)
\* the most list_price_lists requests the service lets one call make
MaxPages == 3

\* what client.list_price_lists answers: a page with its PriceLists (none
\* when the key is missing) and its NextToken (None when the key is missing),
\* or an exception
PriceListPages ==
    {[kind |-> "ok", PriceLists |-> lists, NextToken |-> token] :
        lists \in {<<>>, <<"a1">>, <<"a2", "a3">>},
        token \in {PyNone, PyStr(<<>>), PyStr(<<"t", "1">>), PyStr(<<"t", "2">>)}}
    \cup {Raised("ClientError")}

InitPriceLists ==
    /\ ScrapeIdle
    /\ ParseIdle
    /\ CardIdle
    /\ LensIdle
    /\ ScoreIdle
    /\ today = Now(2025, 7, 15)
    /\ cache = <<>>
    /\ http_calls = <<>>
    /\ dl_calls = <<>>
    /\ served = <<>>
    /\ sent = <<>>
    /\ available_price_lists = <<>>
    /\ next_token = PyNone
    /\ returned = PyNone
    /\ npc = "call"

\* list_available_price_lists up to the loop: the client is made, or
\* boto3.client raises; the date is formatted and params is filled
ListStart ==
    /\ npc = "call"
    /\ npc' \in {"loop", "raised"}
    /\ UNCHANGED <<served, sent, available_price_lists, next_token, returned,
                   score_answers, scoreValues, queries, stdout, spc, cache, http_calls, dl_calls,
                   pvars, svars, cvars, lvars>>

\* ListPage as it would be if the except clause returned what was collected
ListPageKeepsPages ==
    /\ npc = "loop"
    /\ sent' = Append(sent, IF Truthy(next_token) THEN next_token ELSE PyNone)
    /\ \E response \in IF Len(sent) + 1 < MaxPages THEN PriceListPages
                       ELSE {r \in PriceListPages : r.kind = "raise" \/ ~Truthy(r.NextToken)} :
           /\ served' = Append(served, response)
           /\ IF response.kind = "raise"
              THEN /\ stdout' = Append(stdout, "Error querying price lists for date")
                   /\ returned' = JsonList(available_price_lists)
                   /\ npc' = "returned"
                   /\ UNCHANGED <<available_price_lists, next_token>>
              ELSE /\ available_price_lists' = available_price_lists \o response.PriceLists
                   /\ next_token' = response.NextToken
                   /\ stdout' = stdout
                   /\ IF Truthy(response.NextToken)
                      THEN npc' = "loop" /\ returned' = returned
                      ELSE npc' = "returned" /\ returned' = JsonList(available_price_lists')
    /\ UNCHANGED <<score_answers, scoreValues, queries, spc, cache, http_calls, dl_calls,
                   pvars, svars, cvars, lvars>>

\* one turn of the while loop: the request, with the token of the page before
\* if there is one; then the page is added and the loop goes on or the list
\* is returned, or the exception is caught and [] is returned
ListPage ==
    /\ npc = "loop"
    /\ sent' = Append(sent, IF Truthy(next_token) THEN next_token ELSE PyNone)
    /\ \E response \in IF Len(sent) + 1 < MaxPages THEN PriceListPages
                       ELSE {r \in PriceListPages : r.kind = "raise" \/ ~Truthy(r.NextToken)} :
           /\ served' = Append(served, response)
           /\ IF response.kind = "raise"
              THEN /\ stdout' = Append(stdout, "Error querying price lists for date")
                   /\ returned' = JsonList(<<>>)
                   /\ npc' = "returned"
                   /\ UNCHANGED <<available_price_lists, next_token>>
              ELSE /\ available_price_lists' = available_price_lists \o response.PriceLists
                   /\ next_token' = response.NextToken
                   /\ stdout' = stdout
                   /\ IF Truthy(response.NextToken)
                      THEN npc' = "loop" /\ returned' = returned
                      ELSE npc' = "returned" /\ returned' = JsonList(available_price_lists')
    /\ UNCHANGED <<score_answers, scoreValues, queries, spc, cache, http_calls, dl_calls,
                   pvars, svars, cvars, lvars>>

NextPriceLists ==
    \/ ListStart
    \/ ListPage

SpecPriceLists == InitPriceLists /\ [][NextPriceLists]_vars

(***************************************************************************)
(* Properties of scrape_gofan_events and create_ics_calendar (Spec)        *)
(***************************************************************************)
\* C1: the strategies are called in the order 1, 2, 3; a strategy is called
\* only after every strategy called before it returned no record (so none
\* follows a strategy 1 that returned one, and strategy 3 follows only empty
\* strategies 1 and 2); and the list scrape_gofan_events returns is what the
\* first strategy with a non-empty result returned.
C1_PriorityOrder ==
    LET rank == [fn \in {"extract_events_from_nextdata",
                         "extract_event_from_card_structured",
                         "extract_events_from_text"} |->
                    CASE fn = "extract_events_from_nextdata" -> 1
                      [] fn = "extract_event_from_card_structured" -> 2
                      [] OTHER -> 3]
        nonEmpty == {i \in DOMAIN calls : calls[i].out # <<>>}
    IN  /\ \A i, j \in DOMAIN calls :
               i < j => calls[i].out = <<>> /\ rank[calls[i].fn] < rank[calls[j].fn]
        /\ (pc = "found" /\ ~args.test) =>
               events = IF nonEmpty = {} THEN <<>> ELSE calls[MinOf(nonEmpty)].out

\* C1: strategy 1 returned a record and scrape_gofan_events returned with it,
\* no other strategy called
C1_Witness ==
    /\ pc = "found"
    /\ Len(calls) = 1
    /\ calls[1].fn = "extract_events_from_nextdata"
    /\ events # <<>>
    /\ page.cards # <<>>
    /\ page.links # <<>>

\* C2: every record of the list scrape_gofan_events returns has a non-empty
\* date or a non-empty title.
C2_DateOrTitle ==
    (pc = "found" /\ ~args.test) =>
        \A i \in DOMAIN events :
            \/ Truthy(Get(events[i], "date", PyNone))
            \/ Truthy(Get(events[i], "title", PyNone))

\* C2: scrape_gofan_events returned a record with neither a date nor a title
C2_Witness ==
    /\ pc = "found"
    /\ ~args.test
    /\ \E i \in DOMAIN events :
           /\ Get(events[i], "date", PyNone) = PyStr(<<>>)
           /\ Get(events[i], "title", PyNone) = PyStr(<<>>)

\* C3: the calendar create_ics_calendar returns has one entry for each record
\* whose date and time resolve to an instant and none for the others, so every
\* entry has a start.
C3_EntriesHaveStart ==
    cal.kind = "calendar" =>
        /\ Len(cal.components)
               = Cardinality({i \in DOMAIN events : event_datetime(events[i], today).kind = "dt"})
        /\ \A i \in DOMAIN cal.components : "dtstart" \in DOMAIN cal.components[i]

\* C3: the calendar was written with an entry, without a start, for a record
\* whose date does not resolve
C3_Witness ==
    /\ pc = "done"
    /\ out_file.kind = "calendar"
    /\ \E i \in DOMAIN events :
           /\ event_datetime(events[i], today).kind = "none"
           /\ "dtstart" \notin DOMAIN out_file.components[i]
           /\ out_file.components[i]["summary"] = events[i]["title"]

\* C14: a failed page.goto ends the run with that error before the page is
\* read and before any strategy is called; a timed-out wait_for_selector ends
\* nothing: the run goes on to the settle delay, from there to the scroll
\* steps, and from the scroll steps to the content read and strategy 1.
C14_FetchFailures ==
    /\ [](error = "goto" =>
             pc = "raised" /\ calls = <<>> /\ page = NoPage /\ events = <<>> /\ cal = NoCalendar)
    /\ [][/\ (pc = "goto" /\ pc' = "raised") => error' = "goto"
          /\ pc = "wait" => (pc' = "settle" /\ error' = "none")
          /\ pc = "settle" => pc' = "scroll"
          /\ pc = "scroll" => (pc' = "scroll" \/ (pc' = "strategy1" /\ page' \in Pages))
          /\ pc = "raised" => pc' = "raised"]_vars

\* C14: the selector wait timed out and the strategies were called all the same
C14_Witness ==
    /\ pc = "found"
    /\ log = <<"No event selectors found, continuing anyway...">>
    /\ scroll = 3
    /\ Len(calls) = 3
    /\ events # <<>>

\* C15: once the page content is read no failure of extraction or of date
\* parsing ends the run: a run ends with an exception only when page.goto
\* failed.
C15_OnlyFetchErrors ==
    /\ pc = "raised" => error = "goto"
    /\ page # NoPage => pc # "raised"

\* C15: the page was read, strategy 1 returned a record whose date is a
\* number, and the run ended with the AttributeError parse_event_datetime
\* raised for it
C15_Witness ==
    /\ pc = "raised"
    /\ error = "AttributeError"
    /\ page # NoPage
    /\ \E i \in DOMAIN events : events[i]["date"] = PyInt(20251208)

C21_OneRecordPerEventObject ==
    LET children(v) == IF v.t = "dict" THEN [i \in DOMAIN v.members |-> v.members[i].v]
                       ELSE IF v.t = "list" THEN v.items
                       ELSE <<>>
        RECURSIVE flat(_, _)
        flat(vs, i) == IF i > Len(vs) THEN <<>> ELSE children(vs[i]) \o flat(vs, i + 1)
        RECURSIVE below(_)
        \* the values vs and every value under them, level by level
        below(vs) == IF vs = <<>> THEN vs ELSE vs \o below(flat(vs, 1))
        keys(v) == {v.members[i].k : i \in DOMAIN v.members}
        eventLike(v) == /\ v.t = "dict"
                        /\ keys(v) \cap {"eventName", "eventDate", "startTime", "venueName"} # {}
        value(v, k) == v.members[CHOOSE i \in DOMAIN v.members : v.members[i].k = k].v
        nonEmpty(v, k) == k \in keys(v) /\ value(v, k) \notin {PyNone, PyStr(<<>>)}
        first(v, k1, k2, k3) == IF nonEmpty(v, k1) THEN value(v, k1)
                                ELSE IF nonEmpty(v, k2) THEN value(v, k2)
                                ELSE IF nonEmpty(v, k3) THEN value(v, k3)
                                ELSE PyStr(<<>>)
        expected(v) == <<first(v, "eventName", "name", "title"),
                         first(v, "eventDate", "date", "startDate")>>
        times(x, s) == Cardinality({i \in DOMAIN s : s[i] = x})
    IN  (calls # <<>> /\ calls[1].fn = "extract_events_from_nextdata") =>
            LET objects == SelectSeq(below(<<page.next_data.data>>), eventLike)
                wanted == [i \in DOMAIN objects |-> expected(objects[i])]
                got == [i \in DOMAIN calls[1].out |->
                           <<calls[1].out[i]["title"], calls[1].out[i]["date"]>>]
            IN  /\ Len(calls[1].out) = Len(objects)
                /\ \A x \in Range(wanted) \cup Range(got) : times(x, got) = times(x, wanted)

\* C21: the document held an event object with another event-like object
\* inside it and an object with none of the four keys, and strategy 1 returned
\* two records, "Outer" with its date and one for the nested venue
C21_Witness ==
    /\ calls # <<>>
    /\ calls[1].fn = "extract_events_from_nextdata"
    /\ page.next_data.tag = "json"
    /\ page.next_data.data # PyNone
    /\ Len(page.next_data.data.members[1].v.members[1].v.items) = 2
    /\ Len(calls[1].out) = 2
    /\ calls[1].out[1]["title"] = PyStr(<<"O", "u", "t", "e", "r">>)
    /\ calls[1].out[1]["date"] = PyStr(<<"J", "a", "n", " ", "5", " ", "2", "0", "2", "6">>)
    /\ calls[1].out[2]["title"] = PyStr(<<>>)
    /\ calls[1].out[2]["venue"] = PyStr(<<"G", "y", "m">>)

(***************************************************************************)
(* Properties of create_ics_calendar (SpecCalendar)                        *)
(***************************************************************************)
\* C11: every calendar entry with a start has an end, and the end is the
\* start plus 120 minutes of the same clock: counted in minutes from the start
\* of the year 1, with seconds, microseconds and timezone unchanged.
C11_EndIsStartPlusTwoHours ==
    LET before == <<0, 31, 59, 90, 120, 151, 181, 212, 243, 273, 304, 334>>
        leap(y) == (y % 4 = 0 /\ y % 100 # 0) \/ y % 400 = 0
        days(dt) == 365 * (dt.year - 1) + ((dt.year - 1) \div 4) - ((dt.year - 1) \div 100)
                    + ((dt.year - 1) \div 400) + before[dt.month]
                    + (IF dt.month > 2 /\ leap(dt.year) THEN 1 ELSE 0) + dt.day
        minutes(dt) == (days(dt) * 24 + dt.hour) * 60 + dt.minute
    IN  cal.kind = "calendar" =>
            \A i \in DOMAIN cal.components :
                "dtstart" \in DOMAIN cal.components[i] =>
                    /\ "dtend" \in DOMAIN cal.components[i]
                    /\ ValidDate(cal.components[i]["dtend"].year, cal.components[i]["dtend"].month,
                                 cal.components[i]["dtend"].day)
                    /\ cal.components[i]["dtend"].hour \in 0..23
                    /\ minutes(cal.components[i]["dtend"]) = minutes(cal.components[i]["dtstart"]) + 120
                    /\ [cal.components[i]["dtend"] EXCEPT !.year = 0, !.month = 0, !.day = 0, !.hour = 0]
                           = [cal.components[i]["dtstart"] EXCEPT !.year = 0, !.month = 0, !.day = 0, !.hour = 0]

\* C11: an entry that starts on 31 December at 23:30 ends on 1 January at 01:30
C11_Witness ==
    /\ pc = "made"
    /\ \E i \in DOMAIN cal.components :
           /\ "dtstart" \in DOMAIN cal.components[i]
           /\ cal.components[i]["dtstart"].month = 12
           /\ cal.components[i]["dtstart"].day = 31
           /\ cal.components[i]["dtstart"].hour = 23
           /\ cal.components[i]["dtend"].year = cal.components[i]["dtstart"].year + 1
           /\ cal.components[i]["dtend"].month = 1
           /\ cal.components[i]["dtend"].day = 1
           /\ cal.components[i]["dtend"].hour = 1
           /\ cal.components[i]["dtend"].minute = 30

\* C12: on any day of 2024 a record with date "Mon Dec 8" and time "7:00 PM"
\* gets an entry that starts on 8 December 2024 at 19:00 in the local timezone
\* and ends that day at 21:00.
C12_MonDec8 ==
    (pc = "made" /\ today.year = 2024) =>
        \A i \in DOMAIN events :
            (/\ Get(events[i], "date", PyNone) = PyStr(<<"M", "o", "n", " ", "D", "e", "c", " ", "8">>)
             /\ Get(events[i], "time", PyNone) = PyStr(<<"7", ":", "0", "0", " ", "P", "M">>)) =>
                /\ "dtstart" \in DOMAIN cal.components[i]
                /\ cal.components[i]["dtstart"]
                       = DateTime(2024, 12, 8, 19, 0, 0, 0, "America/Kentucky/Louisville")
                /\ cal.components[i]["dtend"]
                       = DateTime(2024, 12, 8, 21, 0, 0, 0, "America/Kentucky/Louisville")

\* C12: the record was processed on 9 December 2024, the day after the game,
\* and its entry starts on 8 December 2024 at 19:00
C12_Witness ==
    /\ pc = "made"
    /\ <<today.year, today.month, today.day>> = <<2024, 12, 9>>
    /\ events[1]["date"] = PyStr(<<"M", "o", "n", " ", "D", "e", "c", " ", "8">>)
    /\ events[1]["time"] = PyStr(<<"7", ":", "0", "0", " ", "P", "M">>)
    /\ <<cal.components[1]["dtstart"].year, cal.components[1]["dtstart"].day,
         cal.components[1]["dtstart"].hour>> = <<2024, 8, 19>>

\* C17 as stated: the identifier is the letters and digits of the date
\* string, then the letters and digits of the title, then "@gofan-scraper",
\* and two records with the same date string and title get the same
\* identifier.
C17_UidAlnumOnly ==
    LET alnum(s) == SelectSeq(s, LAMBDA c : c \in DigitChars \cup Range(UpperSeq) \cup Range(LowerSeq))
    IN  pc = "made" =>
            \A i \in DOMAIN events :
                /\ (/\ {"date", "title"} \subseteq DOMAIN events[i]
                    /\ events[i]["date"].t = "str" /\ events[i]["title"].t = "str") =>
                       cal.components[i]["uid"]
                           = PyStr(alnum(events[i]["date"].v) \o alnum(events[i]["title"].v)
                                   \o <<"@", "g", "o", "f", "a", "n", "-", "s", "c", "r", "a", "p", "e", "r">>)
                /\ \A j \in DOMAIN events :
                       [k \in DOMAIN events[i] \cap {"date", "title"} |-> events[i][k]]
                           = [k \in DOMAIN events[j] \cap {"date", "title"} |-> events[j][k]] =>
                               cal.components[i]["uid"] = cal.components[j]["uid"]

\* C17: the identifier is the date string, "-", the title and
\* "@gofan-scraper", the date string and the title having lost every character
\* that is not an ASCII letter, a digit, "@", "." or "-"; a record with no date
\* counts as "unknown", one with no title as "event", a value None as "None".
\* Two records with the same date string and title get the same identifier
\* whatever their time, venue and ticket URL.
C17_UidKeptChars ==
    LET kept(s) == SelectSeq(s, LAMBDA c : c \in DigitChars \cup Range(UpperSeq) \cup Range(LowerSeq)
                                                 \cup {"@", ".", "-"})
        text(e, k, default) == IF k \notin DOMAIN e THEN default
                               ELSE IF e[k].t = "str" THEN e[k].v
                               ELSE <<"N", "o", "n", "e">>
    IN  pc = "made" =>
            \A i \in DOMAIN events :
                /\ cal.components[i]["uid"]
                       = PyStr(kept(text(events[i], "date", <<"u", "n", "k", "n", "o", "w", "n">>)) \o <<"-">>
                               \o kept(text(events[i], "title", <<"e", "v", "e", "n", "t">>))
                               \o <<"@", "g", "o", "f", "a", "n", "-", "s", "c", "r", "a", "p", "e", "r">>)
                /\ \A j \in DOMAIN events :
                       [k \in DOMAIN events[i] \cap {"date", "title"} |-> events[i][k]]
                           = [k \in DOMAIN events[j] \cap {"date", "title"} |-> events[j][k]] =>
                               cal.components[i]["uid"] = cal.components[j]["uid"]

\* C17: two records with date "Dec 8" and title "vs St. X-Y" that differ in
\* time, venue and ticket URL both got the identifier
\* "Dec8-vsSt.X-Y@gofan-scraper"
C17_Witness ==
    /\ pc = "made"
    /\ Len(events) = 2
    /\ {"date", "title", "time", "venue", "ticket_url"} \subseteq DOMAIN events[1] \cap DOMAIN events[2]
    /\ events[1]["date"] = PyStr(<<"D", "e", "c", " ", "8">>)
    /\ events[1]["title"] = PyStr(<<"v", "s", " ", "S", "t", ".", " ", "X", "-", "Y">>)
    /\ events[2]["date"] = events[1]["date"]
    /\ events[2]["title"] = events[1]["title"]
    /\ events[2]["time"] # events[1]["time"]
    /\ events[2]["venue"] # events[1]["venue"]
    /\ events[2]["ticket_url"] # events[1]["ticket_url"]
    /\ cal.components[1]["uid"]
           = PyStr(<<"D", "e", "c", "8", "-", "v", "s", "S", "t", ".", "X", "-", "Y", "@", "g", "o", "f", "a", "n", "-", "s", "c", "r", "a", "p", "e", "r">>)
    /\ cal.components[2]["uid"] = cal.components[1]["uid"]

\* C18: whatever the current date, the calendar made from the four records of
\* get_sample_events has exactly four entries, each with a non-empty summary,
\* a start instant and a non-empty identifier.
C18_SampleCalendar ==
    (pc \in {"made", "raised"} /\ events = get_sample_events) =>
        /\ pc = "made"
        /\ cal.kind = "calendar"
        /\ Len(cal.components) = 4
        /\ \A i \in 1..4 :
               /\ {"summary", "dtstart", "uid"} \subseteq DOMAIN cal.components[i]
               /\ cal.components[i]["summary"].t = "str"
               /\ cal.components[i]["summary"].v # <<>>
               /\ cal.components[i]["dtstart"].kind = "dt"
               /\ cal.components[i]["uid"].t = "str"
               /\ cal.components[i]["uid"].v # <<>>

\* C18: the sample records were serialised after their dates had passed, and
\* the third of the four entries is the away game of 3 January 2025 at 18:00
C18_Witness ==
    /\ pc = "made"
    /\ events = get_sample_events
    /\ today.year = 2025 /\ today.month = 7
    /\ Len(cal.components) = 4
    /\ cal.components[3]["summary"]
           = PyStr(<<"G", "i", "r", "l", "s", " ", "B", "a", "s", "k", "e", "t", "b", "a", "l", "l", " ", "@", " ", "E", "a", "s", "t", "e", "r", "n">>)
    /\ <<cal.components[3]["dtstart"].year, cal.components[3]["dtstart"].month,
         cal.components[3]["dtstart"].day, cal.components[3]["dtstart"].hour>> = <<2025, 1, 3, 18>>
    /\ cal.components[3]["uid"].v # <<>>

(***************************************************************************)
(* Properties of extract_event_from_card_structured (SpecCard)             *)
(***************************************************************************)
\* C13: a card tagged Home with matchup "A vs B" gets opponent B, and title
\* "GBB: vs B" when its activity levels contain "Girls", "BBB: vs B" when
\* they contain "Boys" and not "Girls"; the record is returned when the card
\* has a date.
C13_HomeGirlsTitle ==
    (/\ cpc = "returned"
     /\ csrc.tag = << <<"H", "o", "m", "e">> >>
     /\ csrc.name.kind = "vs"
     /\ csrc.levels # <<>>
     /\ csrc.date \notin {<<>>, << <<>> >>}) =>
        /\ Contains(<<"G", "i", "r", "l", "s">>, csrc.levels[1]) =>
               /\ card_event # PyNone
               /\ card_event["title"] = PyStr(<<"G", "B", "B", ":", " ", "v", "s", " ">> \o csrc.name.b)
               /\ card_event["opponent"] = PyStr(csrc.name.b)
        /\ (/\ Contains(<<"B", "o", "y", "s">>, csrc.levels[1])
            /\ ~Contains(<<"G", "i", "r", "l", "s">>, csrc.levels[1])) =>
               /\ card_event # PyNone
               /\ card_event["title"] = PyStr(<<"B", "B", "B", ":", " ", "v", "s", " ">> \o csrc.name.b)
               /\ card_event["opponent"] = PyStr(csrc.name.b)

\* C13: "Oldham County Colonels vs Kentucky Country Bearcats", Home, "Girls
\* Varsity" gave the title "GBB: vs Kentucky Country Bearcats"
C13_Witness ==
    /\ cpc = "returned"
    /\ csrc.tag = << <<"H", "o", "m", "e">> >>
    /\ csrc.name = [kind |-> "vs",
                    a |-> <<"O", "l", "d", "h", "a", "m", " ", "C", "o", "u", "n", "t", "y", " ", "C", "o", "l", "o", "n", "e", "l", "s">>,
                    b |-> <<"K", "e", "n", "t", "u", "c", "k", "y", " ", "C", "o", "u", "n", "t", "r", "y", " ", "B", "e", "a", "r", "c", "a", "t", "s">>]
    /\ csrc.levels = << <<"G", "i", "r", "l", "s", " ", "V", "a", "r", "s", "i", "t", "y">> >>
    /\ card_event # PyNone
    /\ card_event["title"] = PyStr(<<"G", "B", "B", ":", " ", "v", "s", " ", "K", "e", "n", "t", "u", "c", "k", "y", " ", "C", "o", "u", "n", "t", "r", "y", " ", "B", "e", "a", "r", "c", "a", "t", "s">>)
    /\ card_event["opponent"] = PyStr(<<"K", "e", "n", "t", "u", "c", "k", "y", " ", "C", "o", "u", "n", "t", "r", "y", " ", "B", "e", "a", "r", "c", "a", "t", "s">>)

\* C19: for a card with a date and matchup "A vs B", the tag Home gives a
\* title ending in "vs B" with opponent B and the tag Away a title ending in
\* "@ A" with opponent A, and a card whose tag is not Away (or that has no
\* tag) gets no title ending in "@ A".
C19_AwayOnlyWhenTagged ==
    LET EndsWith(s, sub) == /\ Len(s) >= Len(sub)
                            /\ SubSeq(s, Len(s) - Len(sub) + 1, Len(s)) = sub
    IN  (/\ cpc = "returned"
         /\ csrc.name.kind = "vs"
         /\ csrc.date \notin {<<>>, << <<>> >>}) =>
            /\ card_event # PyNone
            /\ csrc.tag = << <<"H", "o", "m", "e">> >> =>
                   /\ EndsWith(card_event["title"].v, <<"v", "s", " ">> \o csrc.name.b)
                   /\ card_event["opponent"] = PyStr(csrc.name.b)
            /\ csrc.tag = << <<"A", "w", "a", "y">> >> =>
                   /\ EndsWith(card_event["title"].v, <<"@", " ">> \o csrc.name.a)
                   /\ card_event["opponent"] = PyStr(csrc.name.a)
            /\ csrc.tag # << <<"A", "w", "a", "y">> >> =>
                   ~EndsWith(card_event["title"].v, <<"@", " ">> \o csrc.name.a)

\* C19: a card with no event-tag element, date "Dec 8" and matchup "A vs B"
\* came back as the away game "@ A" with opponent A
C19_Witness ==
    /\ cpc = "returned"
    /\ csrc.tag = <<>>
    /\ csrc.date = << <<"D", "e", "c", " ", "8">> >>
    /\ csrc.name = [kind |-> "vs", a |-> <<"A">>, b |-> <<"B">>]
    /\ csrc.levels = <<>>
    /\ card_event # PyNone
    /\ "home_away" \notin DOMAIN card_event
    /\ card_event["title"] = PyStr(<<"@", " ", "A">>)
    /\ card_event["opponent"] = PyStr(<<"A">>)

\* C20: a record is returned only for a card that has a non-empty
\* month-day-of-year element and a non-empty event-name element, whatever its
\* activity-levels element says.
C20_DateAndNameRequired ==
    (cpc = "returned" /\ card_event # PyNone) =>
        /\ csrc.date \notin {<<>>, << <<>> >>}
        /\ csrc.name.kind # "none"
        /\ MatchupText(csrc.name) # <<>>

\* C20: a card with date "Dec 8", no event-name element and activity levels
\* "Girls Varsity" gave a record whose title is "GBB: "
C20_Witness ==
    /\ cpc = "returned"
    /\ csrc.date = << <<"D", "e", "c", " ", "8">> >>
    /\ csrc.name.kind = "none"
    /\ csrc.levels = << <<"G", "i", "r", "l", "s", " ", "V", "a", "r", "s", "i", "t", "y">> >>
    /\ card_event # PyNone
    /\ "full_name" \notin DOMAIN card_event
    /\ card_event["title"] = PyStr(<<"G", "B", "B", ":", " ">>)

(***************************************************************************)
(* Properties of parse_event_datetime (SpecParse)                          *)
(***************************************************************************)
\* C4: for "Mon dd yyyy" the year of the result is the year written when it is
\* at most the current year + 1, else the current year + 1 for a month before
\* July and the current year otherwise; month and day are those written; the
\* result is no instant when that is no date of the calendar.
C4_ExplicitYear ==
    (ppc # "call" /\ src.form = "mdy") =>
        LET y == IF src.year <= today.year + 1 THEN src.year
                 ELSE IF src.month < 7 THEN today.year + 1 ELSE today.year
        IN  IF ValidDate(y, src.month, src.day)
            THEN /\ result.kind = "dt"
                 /\ <<result.year, result.month, result.day>> = <<y, src.month, src.day>>
            ELSE result.kind = "none"

\* C4: "Jan 5 2027" read in 2025 gave 2026, and "Jan 5 2026" would be kept
C4_Witness ==
    /\ ppc = "returned"
    /\ src.form = "mdy"
    /\ src.year = 2027 /\ src.month = 1 /\ src.day = 5
    /\ today.year = 2025
    /\ result.kind = "dt"
    /\ result.year = 2026

\* C5: for "Mon dd" without a year, a month from August on resolves to the
\* current year, a month up to July to the next year when the current month
\* is August or later and to the current year otherwise; the result is no
\* instant when that is no date of the calendar.
C5_SchoolYear ==
    (ppc # "call" /\ src.form = "md") =>
        LET y == IF src.month >= 8 THEN today.year
                 ELSE IF today.month >= 8 THEN today.year + 1 ELSE today.year
        IN  IF ValidDate(y, src.month, src.day)
            THEN /\ result.kind = "dt"
                 /\ <<result.year, result.month, result.day>> = <<y, src.month, src.day>>
            ELSE result.kind = "none"

\* C5: a date in March read in October resolved to the next year
C5_Witness ==
    /\ ppc = "returned"
    /\ src.form = "md"
    /\ src.month = 3
    /\ today.month = 10
    /\ result.kind = "dt"
    /\ result.year = today.year + 1

\* C6: "December 8, 2024", "Jan 15, 2025", "01/15/2025" and "2025-01-15"
\* resolve to the date written, year included, whatever the current date.
C6_AsWritten ==
    (ppc # "call" /\ src.form \in {"mdcy", "slash", "iso"}
       /\ ValidDate(src.year, src.month, src.day)) =>
        /\ result.kind = "dt"
        /\ <<result.year, result.month, result.day>> = <<src.year, src.month, src.day>>

\* C6: "December 8, 2024" read in 2025 resolved to a day of 2025
C6_Witness ==
    /\ ppc = "returned"
    /\ src.form = "mdcy"
    /\ src.full /\ src.month = 12 /\ src.day = 8 /\ src.year = 2024
    /\ today.year = 2025
    /\ result.kind = "dt"
    /\ result.year = 2025

\* C7: a time string in one of the four formats sets the hour and minute of
\* the result; with an empty time string or one in no format the result is at
\* midnight, for every date string that resolves, "today" and "tomorrow" too.
C7_TimeOfDay ==
    (ppc # "call" /\ result.kind = "dt") =>
        IF tsrc.form \in {"h:mm AM", "h:mmAM", "h AM"}
        THEN /\ result.hour = (tsrc.hour % 12) + (IF tsrc.pm THEN 12 ELSE 0)
             /\ result.minute = tsrc.minute
        ELSE IF tsrc.form = "HH:MM"
        THEN result.hour = tsrc.hour /\ result.minute = tsrc.minute
        ELSE result.hour = 0 /\ result.minute = 0

\* C7: "today" without a time resolved to the current time of day, not midnight
C7_Witness ==
    /\ ppc = "returned"
    /\ src.form = "today"
    /\ tsrc = NoTime
    /\ result.kind = "dt"
    /\ <<result.hour, result.minute, result.second, result.microsecond>>
           = <<today.hour, today.minute, today.second, today.microsecond>>
    /\ result.hour # 0

\* C8: parse_event_datetime applied to str(t) of an instant t it returned
\* returns t.
C8_Idempotent == ppc = "reparsed" => again = result

\* C8: the string form of a returned instant was parsed to no instant
C8_Witness ==
    /\ ppc = "reparsed"
    /\ src.form = "md"
    /\ tsrc.form = "h:mm AM"
    /\ result.kind = "dt"
    /\ again.kind = "none"

\* C9 as stated: the result is no instant exactly when the date string is
\* empty or neither the regex path nor a fallback format parses it, and no
\* exception is raised.
C9_NoneIffUnparsed ==
    ppc # "call" =>
        /\ result.kind # "raise"
        /\ result.kind = "none" <=>
               \/ date_str.v = <<>>
               \/ /\ regex_date(strip(date_str.v), today).kind = "none"
                  /\ fallback_date(strip(date_str.v)).kind = "none"

\* C9 amended: the result is no instant exactly when the date string is empty,
\* or it contains neither "today" nor "tomorrow" in any case and neither the
\* regex path nor a fallback format parses it; no exception is raised.
C9_NoneIffUnparsedNotRelative ==
    ppc # "call" =>
        /\ result.kind # "raise"
        /\ result.kind = "none" <=>
               \/ date_str.v = <<>>
               \/ /\ ~Contains(<<"t", "o", "d", "a", "y">>, lower(date_str.v))
                  /\ ~Contains(<<"t", "o", "m", "o", "r", "r", "o", "w">>, lower(date_str.v))
                  /\ regex_date(strip(date_str.v), today).kind = "none"
                  /\ fallback_date(strip(date_str.v)).kind = "none"

\* C9: a date only a fallback format parses gave an instant, and a non-empty
\* date nothing parses gave none
C9_Witness ==
    /\ ppc = "returned"
    /\ \/ src.form = "iso" /\ result.kind = "dt"
          /\ regex_date(strip(date_str.v), today).kind = "none"
       \/ src.form = "other" /\ date_str.v # <<>> /\ result.kind = "none"

\* C10: every instant parse_event_datetime returns carries the timezone
\* America/Kentucky/Louisville, the one the calendar declares.
C10_DefaultTimezone ==
    /\ (ppc # "call" /\ result.kind = "dt") =>
           /\ result.tz = "America/Kentucky/Louisville"
           /\ result.tz = calendar_properties(<<>>).x_wr_timezone
    /\ (ppc = "reparsed" /\ again.kind = "dt") => again.tz = result.tz

\* C10: "today" with a time string resolved to an instant in that timezone
C10_Witness ==
    /\ ppc = "returned"
    /\ src.form = "today"
    /\ tsrc.form = "h:mm AM"
    /\ result.kind = "dt"
    /\ result.tz = DEFAULT_TZ

(***************************************************************************)
(* Properties of s3_storage_lens_subset (SpecLens)                         *)
(***************************************************************************)
\* C22: put_storage_lens_configuration is called at most once, never with
\* more than 50 buckets in its include list, only when at most 50 bucket
\* names of the account begin with the prefix, and its include list is then
\* those names, in the order of the listing, each after "arn:aws:s3:::".
C22_AtMostMaxBuckets ==
    LET matching == SelectSeq(buckets,
                              LAMBDA name : /\ Len(name) >= Len(PREFIX)
                                            /\ \A i \in DOMAIN PREFIX : name[i] = PREFIX[i])
    IN  /\ Len(put_calls) <= 1
        /\ \A c \in DOMAIN put_calls :
               /\ Len(put_calls[c]) <= 50
               /\ Len(matching) <= 50
               /\ Len(put_calls[c]) = Len(matching)
               /\ \A i \in DOMAIN matching :
                      put_calls[c][i] = <<"a", "r", "n", ":", "a", "w", "s", ":", "s", "3", ":", ":", ":">> \o matching[i]

\* C22: the account has more than 50 buckets, exactly 50 of them begin with
\* "ep-", and the one call made listed those 50
C22_Witness ==
    /\ lpc = "done"
    /\ PREFIX = <<"e", "p", "-">>
    /\ Len(buckets) > 50
    /\ Len(put_calls) = 1
    /\ Len(put_calls[1]) = 50
    /\ put_calls[1][50] = <<"a", "r", "n", ":", "a", "w", "s", ":", "s", "3", ":", ":", ":", "e", "p", "-", "5", "0">>

\* C22: 51 buckets begin with the prefix and the run ended with no call made
C22_WitnessTooMany ==
    /\ lpc = "done"
    /\ Len(bucketList) = 51
    /\ put_calls = <<>>

(***************************************************************************)
(* Properties of placementscore (SpecScore)                                *)
(***************************************************************************)
\* C23: the query with the three instance types is made only when no score
\* of the first answer is above 5; "You can use these machines" is printed at
\* most once in a run, and a finished run has printed it exactly when the
\* last answer obtained holds a score above 5.
C23_SecondQueryAndOneMessage ==
    /\ Len(queries) = 2 => \A i \in DOMAIN score_answers[1] : score_answers[1][i].Score <= 5
    /\ Cardinality({i \in DOMAIN stdout : stdout[i] = "You can use these machines"}) <= 1
    /\ spc = "done" =>
           ((\E i \in DOMAIN stdout : stdout[i] = "You can use these machines")
                <=> (\E i \in DOMAIN scoreValues : scoreValues[i].Score > 5))

\* C23: the first answer held a score above 5, no second query was made, and
\* the run ended with the message printed twice
C23_Witness ==
    /\ spc = "done"
    /\ Len(queries) = 1
    /\ scoreValues = score_answers[1]
    /\ \E i \in DOMAIN scoreValues : scoreValues[i].Score > 5
    /\ stdout = <<"You can use these machines", "You can use these machines">>

C24_WitnessNoTimestamp ==
    /\ Len(dl_calls) = 1
    /\ dl_calls[1].price_list_url = <<"h", "t", "t", "p", "s", ":", "/", "/", "p", "r", "i", "c", "i", "n", "g", ".", "u", "s", "-", "e", "a", "s", "t", "-", "1", ".", "a", "m", "a", "z", "o", "n", "a", "w", "s", ".", "c", "o", "m", "/", "o", "f", "f", "e", "r", "s", "/", "v", "1", ".", "0", "/", "a", "w", "s", "/", "A", "m", "a", "z", "o", "n", "E", "C", "2", "/", "2", "0", "2", "5", "0", "4", "0", "8", "1", "6", "5", "7", "1", "/", "2", "0", "2", "5", "0", "4", "0", "8", "1", "6", "5", "7", "1", "8", "9", "/", "i", "n", "d", "e", "x", ".", "j", "s", "o", "n">>
    /\ dl_calls[1].result = Raised("ValueError")
    /\ http_calls = <<>>
    /\ cache = EmptyDict

(***************************************************************************)
(* Properties of list_available_price_lists (SpecPriceLists)               *)
(***************************************************************************)
\* C25: the first request carries no NextToken and each later one the
\* NextToken of the page before; requests go on exactly while the last page
\* had a NextToken; when no request failed the list returned is the
\* PriceLists of every page, in order; when a request failed the empty list
\* is returned whatever was collected; and once requests have begun the call
\* does not raise.
C25_Pagination ==
    LET RECURSIVE concat(_, _)
        concat(pages, i) == IF i > Len(pages) THEN <<>>
                            ELSE pages[i].PriceLists \o concat(pages, i + 1)
        more(answer) == answer.kind = "ok" /\ answer.NextToken \notin {PyNone, PyStr(<<>>)}
        failed == \E i \in DOMAIN served : served[i].kind = "raise"
    IN  /\ Len(sent) = Len(served)
        /\ \A i \in DOMAIN sent :
               sent[i] = IF i = 1 THEN PyNone ELSE served[i - 1].NextToken
        /\ \A i \in DOMAIN served : i < Len(served) => more(served[i])
        /\ npc = "loop" /\ served # <<>> => more(served[Len(served)])
        /\ npc = "raised" => served = <<>>
        /\ npc = "returned" =>
               /\ ~more(served[Len(served)])
               /\ returned = IF failed THEN JsonList(<<>>) ELSE JsonList(concat(served, 1))

\* C25: three pages were asked for, the second and third with the token of
\* the page before, and the list returned holds the lists of all three
C25_Witness ==
    /\ npc = "returned"
    /\ Len(served) = 3
    /\ \A i \in 1..3 : served[i].kind = "ok" /\ served[i].PriceLists # <<>>
    /\ sent[2] = served[1].NextToken
    /\ sent[3] = served[2].NextToken
    /\ sent[2] # sent[3]
    /\ returned = JsonList(served[1].PriceLists \o served[2].PriceLists \o served[3].PriceLists)

\* C25: two pages were collected, the third request failed, and the empty
\* list was returned
C25_WitnessFailure ==
    /\ npc = "returned"
    /\ Len(served) = 3
    /\ served[1].kind = "ok" /\ served[1].PriceLists # <<>>
    /\ served[3].kind = "raise"
    /\ available_price_lists # <<>>
    /\ returned = JsonList(<<>>)

====
